---------------------------- MODULE Spec2Model ----------------------------
(***************************************************************************)
(* A model of tilth's core state machines: the Bloom filter and its        *)
(* per-file cache (src/src/index/bloom.rs), the symbol index               *)
(* (src/src/index/symbol.rs), the hashline edit tool (src/src/mcp.rs) and  *)
(* the outline cache used by read and search.                              *)
(*                                                                         *)
(* Each subsystem has its own specification (SpecBloom, SpecBloomCache,    *)
(* ...).  All specifications share the module's variables; a subsystem's   *)
(* specification keeps the other subsystems' variables at their initial    *)
(* values.                                                                 *)
(*                                                                         *)
(* Conventions: text is a sequence of one-character strings, a path of the *)
(* symbol index is a sequence of components, an Option is a sequence of    *)
(* length 0 (None) or 1 (Some).                                            *)
(***************************************************************************)
EXTENDS Integers, Sequences, FiniteSets, TLC

VARIABLES
    bf,             \* SpecBloom: the BloomFilter under test
    bfInserted,     \* SpecBloom: history, the items inserted since new()
    bfQuery,        \* SpecBloom: the last contains() call and its answer
    filters,        \* SpecBloomCache: BloomFilterCache.filters
    builtFrom,      \* SpecBloomCache: history, content each cached filter was built from
    bcLast,         \* SpecBloomCache: the last BloomFilterCache.contains call
    symbols,        \* SpecIndex: SymbolIndex.symbols, name -> Vec<SymbolLocation>
    indexed_files,  \* SpecIndex: SymbolIndex.indexed_files, path -> mtime
    disk,           \* SpecIndex: the files build() walks, path -> (content, mtime)
    nOps,           \* SpecIndex: number of writes, build and index_file calls so far
    idxLast,        \* SpecIndex: the index_file call that ran last, if nothing ran since
    lastLookup,     \* SpecIndex: the last lookup and what it returned
    lastIndexed,    \* SpecIndex: history, path -> the content it was last indexed from
    fileLines,      \* SpecEdit: the lines of the edited file on disk
    stableHash,     \* SpecEdit: stable_hash, line text -> hash before truncation
    editLast,       \* SpecEdit: the last tilth_edit call (args, file before, response)
    editPrev,       \* SpecEdit: the tilth_edit call before the last one
    nRepeats,       \* SpecEdit: number of re-sent calls so far
    sessionReads,   \* SpecEdit: Session.reads of the edited path
    pc,             \* SpecEditConc: where each tilth_edit call is
    callArgs,       \* SpecEditConc: the arguments of each call
    lockHolder,     \* SpecEditConc: the call holding the mutex of the path
    snapshot,       \* SpecEditConc: the lines each call read
    pending,        \* SpecEditConc: the lines each call is about to write
    tmpFile,        \* SpecEditConc: the content of <path>.tmp, if it exists
    callResponse,   \* SpecEditConc: the response of each call
    fileAtStart,    \* SpecEditConc: the file before the calls
    outlineEntries, \* SpecOutline: OutlineCache entries, path -> (mtime, outline)
    everStored,     \* SpecOutline: the (path, mtime) pairs a result was stored for
    ocLast,         \* SpecOutline: the last get_or_compute call
    clock,          \* SpecRank: SystemTime::now(), in seconds
    rankArgs,       \* SpecRank: query, scope, context and file system of the sorts
    rankInput,      \* SpecRank: the matches handed to the running sort
    rankList,       \* SpecRank: the slice being sorted
    rankPos,        \* SpecRank: <<i, j>>: element i is being inserted and is now at j
    rankScoreA,     \* SpecRank: the first score of the running comparison, if computed
    rankClocks,     \* SpecRank: the clock readings of the running or last sort
    rankDone,       \* SpecRank: the outputs of the finished sorts, in order
    nTicks,         \* SpecRank: number of clock ticks so far
    facetInput,     \* SpecFacet: the matches of the search result
    facetResult,    \* SpecFacet: the FacetedResult, once facet_matches returned
    expansions,     \* SpecExpand: Session.expansions, the recorded (path, line) pairs
    exLast,         \* SpecExpand: the last search response
    nSearches,      \* SpecExpand: number of searches so far
    edit_mode,      \* SpecMcp: the flag run was started with
    mcpTrace,       \* SpecMcp: the lines read from stdin, each with its tool outcome
    mcpPending,     \* SpecMcp: the response built for the last line, not yet written
    stdout,         \* SpecMcp: the response lines written
    mcpFile,        \* SpecMcp: the lines of the file f on disk
    mcpEditCalls,   \* SpecMcp: number of times tool_edit was entered
    readCache,      \* SpecRead: OutlineCache entries, path -> (mtime, outline)
    readLast,       \* SpecRead: the last read_file call and what it returned
    nReads,         \* SpecRead: number of read_file calls so far
    secBuf,         \* SpecSection: the bytes of the file read_section maps
    secRange,       \* SpecSection: the section argument
    secResult,      \* SpecSection: what read_section returned, once it did
    tokBytes,       \* SpecTokenizer: the content handed to extract_identifiers
    tokIter,        \* SpecTokenizer: the IdentifierIter (pos, state)
    tokInNext,      \* SpecTokenizer: whether a call of next is running
    tokYielded,     \* SpecTokenizer: history, the identifiers returned, with their start
    tokReturns,     \* SpecTokenizer: history, what each finished call of next returned
    tokPrev,        \* SpecTokenizer: history, the iterator before the last loop iteration
    boostArgs,      \* SpecBoost: the match, query, context and file system of a score call
    boostResult,    \* SpecBoost: the parts of the score, once computed
    gapInput,       \* SpecGap: the lines and the range handed to filter_code_lines
    gapResult,      \* SpecGap: the rendered block, once filter_code_lines returned
    stripInput,     \* SpecStrip: the content, extension and def_range of a strip_noise call
    stripResult,    \* SpecStrip: the skip set, once strip_noise returned
    multiInput,     \* SpecMulti: the results of the queries, the session and expand
    multiResult,    \* SpecMulti: the formatter state before and after each query
    mdInput,        \* SpecMarkdown: the bytes of the file and max_lines
    mdResult,       \* SpecMarkdown: the outline and the state of the scan at its end
    indexers,       \* SpecIndexConc: the running index_file calls, thread -> position and locals
    bloomCalls,     \* SpecBloomConc: the running contains calls, thread -> position and locals
    supplied        \* SpecBloomConc: history, the (content, mtime) pairs passed to contains

bloomVars == <<bf, bfInserted, bfQuery>>
bloomCacheVars == <<filters, builtFrom, bcLast>>
indexVars == <<symbols, indexed_files, disk, nOps, idxLast, lastLookup, lastIndexed>>
editVars == <<fileLines, stableHash, editLast, editPrev, nRepeats, sessionReads>>
concVars == <<pc, callArgs, lockHolder, snapshot, pending, tmpFile, callResponse, fileAtStart>>
outlineVars == <<outlineEntries, everStored, ocLast>>
rankVars == <<clock, rankArgs, rankInput, rankList, rankPos, rankScoreA, rankClocks, rankDone, nTicks>>
facetVars == <<facetInput, facetResult>>
\* the variables of the tool front end: faceting, formatting, the MCP loop, reading
expandVars == <<expansions, exLast, nSearches>>
mcpVars == <<edit_mode, mcpTrace, mcpPending, stdout, mcpFile, mcpEditCalls>>
readVars == <<readCache, readLast, nReads>>
\* the variables of the specifications of single functions
sectionVars == <<secBuf, secRange, secResult>>
tokVars == <<tokBytes, tokIter, tokInNext, tokYielded, tokReturns, tokPrev>>
boostVars == <<boostArgs, boostResult>>
gapVars == <<gapInput, gapResult>>
pureVars == <<sectionVars, tokVars, boostVars, gapVars>>
stripVars == <<stripInput, stripResult>>
multiVars == <<multiInput, multiResult>>
mdVars == <<mdInput, mdResult>>
bloomConcVars == <<bloomCalls, supplied>>
restVars == <<stripVars, multiVars, mdVars, indexers, bloomConcVars>>
toolVars == <<facetVars, expandVars, mcpVars, readVars, pureVars, restVars>>
vars == <<bloomVars, bloomCacheVars, indexVars, editVars, concVars, outlineVars, rankVars, toolVars>>

None == <<>>
Some(v) == <<v>>
IsSome(o) == Len(o) = 1
Unwrap(o) == o[1]

Max(a, b) == IF a >= b THEN a ELSE b
Min(a, b) == IF a <= b THEN a ELSE b
CeilDiv(a, b) == (a + b - 1) \div b

(***************************************************************************)
(* Hashing.  std's DefaultHasher is not part of the repository; it is      *)
(* modelled as a deterministic seeded fold over the item's bytes.  u64     *)
(* arithmetic is kept modular, with the word narrowed from 2^64 to 2^16 so *)
(* that the products stay inside TLC's integers.                           *)
(***************************************************************************)
HashModulus == 2^16

\* The bytes the model's texts are made of.  Bytes that TLA+ strings cannot hold
\* plainly are named: dq is the double quote, sq the single quote, bt the
\* backtick, bs the backslash, nl the newline, sp the space.
Alphabet == <<"a", "b", "f", "o", "r", "x", "_", "1", "sp", "dq", "sq", "bt", "/", "*", "bs", "nl", "(", ";">>

CharCode(c) == CHOOSE i \in 1..Len(Alphabet) : Alphabet[i] = c

RECURSIVE HashFold(_, _, _)
HashFold(item, i, h) ==
    IF i > Len(item) THEN h
    ELSE HashFold(item, i + 1, (h * 31 + CharCode(item[i]) * 7 + 3) % HashModulus)

\* seed.hash(&mut hasher); item.hash(&mut hasher); hasher.finish()
hash_with_seed(item, seed) ==
    LET h == HashFold(item, 1, (seed * 131 + 17) % HashModulus)
    IN  (h * 251 + Len(item)) % HashModulus

\* the low 16 bits of 0x517c_c1b7_2722_0a95
SecondSeed == 2709

double_hash(item) == <<hash_with_seed(item, 0), hash_with_seed(item, SecondSeed)>>

\* h(i) = h1 + i * h2 (wrapping), mapped to [0, num_bits)
combined_hash(h1, h2, i, num_bits) ==
    ((h1 + ((i * h2) % HashModulus)) % HashModulus) % num_bits

(***************************************************************************)
(* BloomFilter.  bits is the Vec<u64>: a sequence of words, each word the  *)
(* set of its bit positions that are 1.                                    *)
(***************************************************************************)
WordBits == 64
MaxHashes == 32
U8Max == 255
Ln2Micro == 693147

\* -ln(p) / (ln 2)^2 in millionths, for the false-positive targets the model uses
BitsPerItemMicro(target_fpr) ==
    CASE target_fpr = "0.01" -> 9585058
      [] target_fpr = "0.5"  -> 1442695

BloomFilterNew(expected_items, target_fpr) ==
    LET m0 == CeilDiv(expected_items * BitsPerItemMicro(target_fpr), 1000000)
        m == Max(m0, WordBits)
        k0 == CeilDiv(m * Ln2Micro, expected_items * 1000000)
        k8 == Min(k0, U8Max)                      \* the cast to u8 saturates
        k == Max(1, Min(k8, MaxHashes))           \* clamp(1, 32)
        num_words == CeilDiv(m, WordBits)
    IN  [bits |-> [w \in 1..num_words |-> {}],
         num_hashes |-> k,
         num_bits |-> num_words * WordBits]

BitIndexes(f, item) ==
    LET h == double_hash(item)
    IN  {combined_hash(h[1], h[2], i, f.num_bits) : i \in 0..(f.num_hashes - 1)}

\* a loop that starts at 1 instead of 0
BloomInsertSkipsFirst(f, item) ==
    LET h == double_hash(item)
        idxs == {combined_hash(h[1], h[2], i, f.num_bits) : i \in 1..(f.num_hashes - 1)}
    IN  [f EXCEPT !.bits =
            [w \in DOMAIN f.bits |->
                f.bits[w] \cup {idx % WordBits : idx \in {j \in idxs : j \div WordBits = w - 1}}]]

BloomInsert(f, item) ==
    LET idxs == BitIndexes(f, item)
    IN  [f EXCEPT !.bits =
            [w \in DOMAIN f.bits |->
                f.bits[w] \cup {idx % WordBits : idx \in {j \in idxs : j \div WordBits = w - 1}}]]

BloomContains(f, item) ==
    \A idx \in BitIndexes(f, item) :
        (idx % WordBits) \in f.bits[(idx \div WordBits) + 1]

(***************************************************************************)
(* Identifier extraction: IdentifierIter, a byte-level state machine.      *)
(* An iterator is [pos, state]; pos is 0-based as in the source, so the    *)
(* byte at pos is bytes[pos + 1].                                          *)
(***************************************************************************)
Letters == {"a", "b", "f", "o", "r", "x"}
Digits == {"1"}

is_ident_start(b) == b \in Letters \/ b = "_"
is_ident_continue(b) == b \in Letters \/ b \in Digits \/ b = "_"

IdentifierIterNew == [pos |-> 0, state |-> "Code"]

\* while self.pos < len && is_ident_continue(bytes[self.pos]) { self.pos += 1 }
RECURSIVE IdentEnd(_, _)
IdentEnd(bytes, pos) ==
    IF pos < Len(bytes) /\ is_ident_continue(bytes[pos + 1])
    THEN IdentEnd(bytes, pos + 1)
    ELSE pos

\* a scanner for which a double quote ends every kind of string
StringQuoteAlwaysDouble(state) == "dq"

StringQuote(state) ==
    CASE state = "StringDouble" -> "dq"
      [] state = "StringSingle" -> "sq"
      [] state = "StringBacktick" -> "bt"

\* a scanner for which a backslash in a string is a byte like any other
ScanStepNoEscape(bytes, it) ==
    LET len == Len(bytes)
        i == it.pos
        b == bytes[i + 1]
        go(p, st) == [it |-> [pos |-> p, state |-> st], item |-> None]
    IN  CASE it.state = "Code" ->
                IF b = "dq" THEN go(i + 1, "StringDouble")
                ELSE IF b = "sq" THEN go(i + 1, "StringSingle")
                ELSE IF b = "bt" THEN go(i + 1, "StringBacktick")
                ELSE IF b = "/" /\ i + 1 < len /\ bytes[i + 2] = "/" THEN go(i + 2, "LineComment")
                ELSE IF b = "/" /\ i + 1 < len /\ bytes[i + 2] = "*" THEN go(i + 2, "BlockComment")
                ELSE IF is_ident_start(b)
                     THEN LET e == IdentEnd(bytes, i + 1)
                          IN  [it |-> [pos |-> e, state |-> "Code"],
                               item |-> Some(SubSeq(bytes, i + 1, e))]
                ELSE go(i + 1, "Code")
          [] it.state \in {"StringDouble", "StringSingle", "StringBacktick"} ->
                IF b = StringQuote(it.state) THEN go(i + 1, "Code")
                ELSE go(i + 1, it.state)
          [] it.state = "LineComment" ->
                IF b = "nl" THEN go(i + 1, "Code") ELSE go(i + 1, "LineComment")
          [] it.state = "BlockComment" ->
                IF b = "*" /\ i + 1 < len /\ bytes[i + 2] = "/" THEN go(i + 2, "Code")
                ELSE go(i + 1, "BlockComment")

\* a scanner whose escapes and two-byte delimiters do not look at the length
ScanStepUnbounded(bytes, it) ==
    LET len == Len(bytes)
        i == it.pos
        b == bytes[i + 1]
        go(p, st) == [it |-> [pos |-> p, state |-> st], item |-> None]
    IN  CASE it.state = "Code" ->
                IF b = "dq" THEN go(i + 1, "StringDouble")
                ELSE IF b = "sq" THEN go(i + 1, "StringSingle")
                ELSE IF b = "bt" THEN go(i + 1, "StringBacktick")
                ELSE IF b = "/" /\ i + 1 < len /\ bytes[i + 2] = "/" THEN go(i + 2, "LineComment")
                ELSE IF b = "/" /\ i + 1 < len /\ bytes[i + 2] = "*" THEN go(i + 2, "BlockComment")
                ELSE IF is_ident_start(b)
                     THEN LET e == IdentEnd(bytes, i + 1)
                          IN  [it |-> [pos |-> e, state |-> "Code"],
                               item |-> Some(SubSeq(bytes, i + 1, e))]
                ELSE go(i + 1, "Code")
          [] it.state \in {"StringDouble", "StringSingle", "StringBacktick"} ->
                IF b = "bs" THEN go(i + 2, it.state)
                ELSE IF b = StringQuote(it.state) THEN go(i + 1, "Code")
                ELSE go(i + 1, it.state)
          [] it.state = "LineComment" ->
                IF b = "nl" THEN go(i + 1, "Code") ELSE go(i + 1, "LineComment")
          [] it.state = "BlockComment" ->
                IF b = "*" /\ i + 1 < len /\ bytes[i + 2] = "/" THEN go(i + 2, "Code")
                ELSE go(i + 1, "BlockComment")

\* One iteration of the while loop of IdentifierIter::next, taken with
\* it.pos < len: the iterator after it and the identifier it returns, if any.
ScanStep(bytes, it) ==
    LET len == Len(bytes)
        i == it.pos
        b == bytes[i + 1]
        go(p, st) == [it |-> [pos |-> p, state |-> st], item |-> None]
    IN  CASE it.state = "Code" ->
                IF b = "dq" THEN go(i + 1, "StringDouble")
                ELSE IF b = "sq" THEN go(i + 1, "StringSingle")
                ELSE IF b = "bt" THEN go(i + 1, "StringBacktick")
                ELSE IF b = "/" /\ i + 1 < len /\ bytes[i + 2] = "/" THEN go(i + 2, "LineComment")
                ELSE IF b = "/" /\ i + 1 < len /\ bytes[i + 2] = "*" THEN go(i + 2, "BlockComment")
                ELSE IF is_ident_start(b)
                     THEN LET e == IdentEnd(bytes, i + 1)
                          IN  [it |-> [pos |-> e, state |-> "Code"],
                               item |-> Some(SubSeq(bytes, i + 1, e))]
                ELSE go(i + 1, "Code")
          [] it.state \in {"StringDouble", "StringSingle", "StringBacktick"} ->
                IF b = "bs" /\ i + 1 < len THEN go(i + 2, it.state)
                ELSE IF b = StringQuote(it.state) THEN go(i + 1, "Code")
                ELSE go(i + 1, it.state)
          [] it.state = "LineComment" ->
                IF b = "nl" THEN go(i + 1, "Code") ELSE go(i + 1, "LineComment")
          [] it.state = "BlockComment" ->
                IF b = "*" /\ i + 1 < len /\ bytes[i + 2] = "/" THEN go(i + 2, "Code")
                ELSE go(i + 1, "BlockComment")

\* IdentifierIter::next
RECURSIVE IterNext(_, _)
IterNext(bytes, it) ==
    IF it.pos >= Len(bytes) THEN [it |-> it, item |-> None]
    ELSE LET r == ScanStep(bytes, it)
         IN  IF IsSome(r.item) THEN r ELSE IterNext(bytes, r.it)

RECURSIVE CollectIdents(_, _)
CollectIdents(bytes, it) ==
    LET r == IterNext(bytes, it)
    IN  IF IsSome(r.item) THEN <<Unwrap(r.item)>> \o CollectIdents(bytes, r.it) ELSE <<>>

\* extract_identifiers(content).collect()
extract_identifiers(content) == CollectIdents(content, IdentifierIterNew)

RECURSIVE InsertAll(_, _, _)
InsertAll(f, idents, i) ==
    IF i > Len(idents) THEN f ELSE InsertAll(BloomInsert(f, idents[i]), idents, i + 1)

build_filter(content) ==
    LET idents == extract_identifiers(content)
        expected == Max(Len(idents), 1)
    IN  InsertAll(BloomFilterNew(expected, "0.01"), idents, 1)

(***************************************************************************)
(* BloomFilterCache: filters maps a path to (filter, mtime).               *)
(***************************************************************************)
MapPut(m, k, v) == [x \in (DOMAIN m) \cup {k} |-> IF x = k THEN v ELSE m[x]]
MapGet(m, k) == IF k \in DOMAIN m THEN Some(m[k]) ELSE None

\* the fast path taken whenever an entry exists, whatever its mtime
CacheHitIgnoresMtime(fs, path, mtime) ==
    path \in DOMAIN fs

\* the fast path never taken
CacheHitNever(fs, path, mtime) ==
    FALSE

\* if let Some(entry) = self.filters.get(path) { if cached_mtime == mtime { .. } }
CacheHit(fs, path, mtime) ==
    /\ path \in DOMAIN fs
    /\ fs[path].mtime = mtime

\* BloomFilterCache::contains: the answer and the map after the call
BloomCacheContains(fs, path, mtime, content, symbol) ==
    IF CacheHit(fs, path, mtime)
    THEN [answer |-> BloomContains(fs[path].filter, symbol), filters |-> fs]
    ELSE LET filter == build_filter(content)
         IN  [answer |-> BloomContains(filter, symbol),
              filters |-> MapPut(fs, path, [filter |-> filter, mtime |-> mtime])]

(***************************************************************************)
(* SymbolIndex.  A path is a sequence of components; Path::starts_with     *)
(* compares whole components.  A file's content is given by its parse: the *)
(* sequence of the tree's nodes that walk_definitions visits, one per      *)
(* line, each with the fields the extraction reads.                        *)
(***************************************************************************)
EmptyMap == [x \in {} |-> None]

PathStartsWith(path, scope) ==
    /\ Len(scope) <= Len(path)
    /\ SubSeq(path, 1, Len(scope)) = scope

SKIP_DIRS == {".git", "node_modules", "target", "dist", "build", "__pycache__",
              ".pycache", "vendor", ".next", ".nuxt", "coverage", ".cache", ".tox",
              ".venv", ".eggs", ".mypy_cache", ".ruff_cache", ".pytest_cache",
              ".turbo", ".parcel-cache", ".svelte-kit", "out", ".output", ".vercel",
              ".netlify", ".gradle", ".idea"}

DEFINITION_KINDS == {"function_declaration", "function_definition", "function_item",
    "method_definition", "method_declaration", "class_declaration", "class_definition",
    "struct_item", "interface_declaration", "type_alias_declaration", "type_item",
    "enum_item", "enum_declaration", "lexical_declaration", "variable_declaration",
    "const_item", "static_item", "trait_item", "impl_item", "mod_item",
    "decorated_definition", "type_declaration", "export_statement"}

Node(kind, name, trait, type) == [kind |-> kind, name |-> name, trait |-> trait, type |-> type]

\* The parses of the file contents the model uses.
ParseTree(content) ==
    CASE content = "hello_world" ->
            << Node("function_item", Some("hello"), None, None),
               Node("function_item", Some("world"), None, None) >>
      [] content = "hello_updated" ->
            << Node("function_item", Some("hello"), None, None),
               Node("line_comment", None, None, None),
               Node("function_item", Some("updated"), None, None) >>
      [] content = "impl_hello" ->
            << Node("impl_item", None, Some("hello"), Some("Foo")) >>

\* detect_file_type(path) is Code(lang) with a grammar
IsCodeFile(path) == Len(path) > 0 /\ path[Len(path)] \in {"x.rs", "y.rs"}

\* what walk_definitions pushes for one node, at 1-based line `line`
NodeSymbols(node, line) ==
    IF node.kind \notin DEFINITION_KINDS THEN << >>
    ELSE (IF IsSome(node.name) THEN << <<Unwrap(node.name), line, TRUE>> >> ELSE << >>)
         \o (IF node.kind = "impl_item" /\ IsSome(node.trait)
             THEN << <<Unwrap(node.trait), line, TRUE>> >> ELSE << >>)
         \o (IF node.kind = "impl_item" /\ IsSome(node.type)
             THEN << <<Unwrap(node.type), line, TRUE>> >> ELSE << >>)

RECURSIVE walk_definitions(_, _)
walk_definitions(nodes, i) ==
    IF i > Len(nodes) THEN << >>
    ELSE NodeSymbols(nodes[i], i) \o walk_definitions(nodes, i + 1)

\* (name, line, is_definition) tuples
extract_symbols(path, content) ==
    IF ~IsCodeFile(path) THEN << >> ELSE walk_definitions(ParseTree(content), 1)

SymbolLocation(path, line, is_def, mtime) ==
    [path |-> path, line |-> line, is_definition |-> is_def, mtime |-> mtime]

\* self.symbols.entry(name).or_default().push(loc), for each extracted symbol
RECURSIVE PushSymbols(_, _, _, _, _)
PushSymbols(syms, path, mtime, extracted, i) ==
    IF i > Len(extracted) THEN syms
    ELSE LET name == extracted[i][1]
             loc == SymbolLocation(path, extracted[i][2], extracted[i][3], mtime)
             old == IF name \in DOMAIN syms THEN syms[name] ELSE << >>
         IN  PushSymbols(MapPut(syms, name, Append(old, loc)), path, mtime, extracted, i + 1)

\* nothing is removed
RetainOtherPathsKeepsAll(syms, path) ==
    syms

\* entry.value_mut().retain(|loc| loc.path != path), over all entries
RetainOtherPaths(syms, path) ==
    [name \in DOMAIN syms |-> SelectSeq(syms[name], LAMBDA loc : loc.path # path)]

\* SymbolIndex::index_file, with the mtime fs::metadata gave
index_file(syms, files, path, content, mtime) ==
    LET cleaned == IF path \in DOMAIN files THEN RetainOtherPaths(syms, path) ELSE syms
        extracted == extract_symbols(path, content)
    IN  [symbols |-> PushSymbols(cleaned, path, mtime, extracted, 1),
         indexed_files |-> MapPut(files, path, mtime)]

\* SymbolIndex::symbol_count
symbol_count(syms) == Cardinality(DOMAIN syms)

\* the filter over every location stored under the name
lookupIgnoresScope(syms, name, scope) ==
    IF name \notin DOMAIN syms THEN << >> ELSE syms[name]

\* SymbolIndex::lookup
lookup(syms, name, scope) ==
    IF name \notin DOMAIN syms THEN << >>
    ELSE SelectSeq(syms[name], LAMBDA loc : PathStartsWith(loc.path, scope))

\* SymbolIndex::lookup_definitions
lookup_definitions(syms, name, scope) ==
    IF name \notin DOMAIN syms THEN << >>
    ELSE SelectSeq(syms[name], LAMBDA loc : loc.is_definition /\ PathStartsWith(loc.path, scope))

\* build(): the files the walk of `scope` selects
WalkedFiles(d, scope) ==
    {p \in DOMAIN d :
        /\ PathStartsWith(p, scope)
        /\ \A i \in (Len(scope) + 1)..(Len(p) - 1) : p[i] \notin SKIP_DIRS
        /\ IsCodeFile(p)}

\* build(): the insertion loop over the per-file results, in walk order
RECURSIVE BuildInsert(_, _, _, _, _)
BuildInsert(syms, files, d, order, i) ==
    IF i > Len(order) THEN [symbols |-> syms, indexed_files |-> files]
    ELSE LET p == order[i]
         IN  BuildInsert(PushSymbols(syms, p, d[p].mtime, extract_symbols(p, d[p].content), 1),
                         MapPut(files, p, d[p].mtime), d, order, i + 1)

Orderings(S) ==
    {o \in [1..Cardinality(S) -> S] : \A i, j \in 1..Cardinality(S) : i # j => o[i] # o[j]}

(***************************************************************************)
(* Hashline edit.  tool_edit is the handler of mcp.rs.  parse_anchor and   *)
(* apply_edits follow the description of the anchor wire format and of     *)
(* the edit engine.  A file is the sequence of its lines, a line a         *)
(* sequence of characters, "nl" the newline character.                     *)
(***************************************************************************)
HashBits == 12

HexDigits == <<"0", "1", "2", "3", "4", "5", "6", "7", "8", "9", "a", "b", "c", "d", "e", "f">>
DigitValue(c) == (CHOOSE i \in 1..Len(HexDigits) : HexDigits[i] = c) - 1
IsDigit(c, base) == \E i \in 1..base : HexDigits[i] = c

RECURSIVE ParseNumber(_, _, _)
ParseNumber(s, base, acc) ==
    IF s = << >> THEN acc
    ELSE ParseNumber(Tail(s), base, acc * base + DigitValue(Head(s)))

\* "<decimal_line>:<3_hex_hash>" -> Some(<<line, hash>>)
parse_anchor(s) ==
    LET colons == {i \in 1..Len(s) : s[i] = ":"}
    IN  IF colons = {} THEN None
        ELSE LET i == CHOOSE k \in colons : \A j \in colons : k <= j
                 l == SubSeq(s, 1, i - 1)
                 h == SubSeq(s, i + 1, Len(s))
             IN  IF /\ l # << >>
                    /\ \A k \in 1..Len(l) : IsDigit(l[k], 10)
                    /\ Len(h) = 3
                    /\ \A k \in 1..Len(h) : IsDigit(h[k], 16)
                 THEN Some(<<ParseNumber(l, 10, 0), ParseNumber(h, 16, 0)>>)
                 ELSE None

\* truncate_to_12_bits(stable_hash(line_text))
line_hash(hashes, line) == hashes[line] % (2 ^ HashBits)

Edit(start_line, start_hash, end_line, end_hash, content) ==
    [start_line |-> start_line, start_hash |-> start_hash,
     end_line |-> end_line, end_hash |-> end_hash, content |-> content]

NoEdit == Edit(0, 0, 0, 0, << >>)

\* an entry without 'content' is read as one with empty content
parse_entry_missing_content_as_empty(e) ==
    IF ~IsSome(e.start) THEN [err |-> "missing 'start'", edit |-> NoEdit]
    ELSE LET sa == parse_anchor(Unwrap(e.start))
         IN  IF ~IsSome(sa) THEN [err |-> "invalid start anchor", edit |-> NoEdit]
             ELSE LET ea == IF IsSome(e.end) THEN parse_anchor(Unwrap(e.end)) ELSE sa
                  IN  IF ~IsSome(ea) THEN [err |-> "invalid end anchor", edit |-> NoEdit]
                      ELSE [err |-> "",
                            edit |-> Edit(Unwrap(sa)[1], Unwrap(sa)[2], Unwrap(ea)[1], Unwrap(ea)[2],
                                          IF IsSome(e.content) THEN Unwrap(e.content) ELSE << >>)]

\* tool_edit: the body of the loop over edits_val, for one entry
parse_entry(e) ==
    IF ~IsSome(e.start) THEN [err |-> "missing 'start'", edit |-> NoEdit]
    ELSE LET sa == parse_anchor(Unwrap(e.start))
         IN  IF ~IsSome(sa) THEN [err |-> "invalid start anchor", edit |-> NoEdit]
             ELSE LET ea == IF IsSome(e.end) THEN parse_anchor(Unwrap(e.end)) ELSE sa
                  IN  IF ~IsSome(ea) THEN [err |-> "invalid end anchor", edit |-> NoEdit]
                      ELSE IF ~IsSome(e.content) THEN [err |-> "missing 'content'", edit |-> NoEdit]
                      ELSE [err |-> "",
                            edit |-> Edit(Unwrap(sa)[1], Unwrap(sa)[2], Unwrap(ea)[1], Unwrap(ea)[2],
                                          Unwrap(e.content))]

\* tool_edit: the loop over edits_val; stops at the first entry in error
RECURSIVE parse_edits(_, _, _)
parse_edits(edits_val, i, acc) ==
    IF i > Len(edits_val) THEN [err |-> "", edits |-> acc]
    ELSE LET r == parse_entry(edits_val[i])
         IN  IF r.err # "" THEN [err |-> r.err, edits |-> << >>]
             ELSE parse_edits(edits_val, i + 1, Append(acc, r.edit))

\* content split on newlines; empty content is a deletion
RECURSIVE SplitOnNewline(_, _, _)
SplitOnNewline(s, cur, acc) ==
    IF s = << >> THEN Append(acc, cur)
    ELSE IF Head(s) = "nl" THEN SplitOnNewline(Tail(s), << >>, Append(acc, cur))
    ELSE SplitOnNewline(Tail(s), Append(cur, Head(s)), acc)

ContentLines(content) ==
    IF content = << >> THEN << >> ELSE SplitOnNewline(content, << >>, << >>)

\* only the line number is checked
AnchorMatchesLineOnly(hashes, lines, line, hash) ==
    line \in 1..Len(lines)

\* apply_edits step 2, one anchor
AnchorMatches(hashes, lines, line, hash) ==
    /\ line \in 1..Len(lines)
    /\ line_hash(hashes, lines[line]) = hash

VerifyAll(hashes, lines, edits) ==
    \A i \in 1..Len(edits) :
        /\ AnchorMatches(hashes, lines, edits[i].start_line, edits[i].start_hash)
        /\ AnchorMatches(hashes, lines, edits[i].end_line, edits[i].end_hash)

\* the edits are left in the order of the batch
SortByStartKeepsOrder(edits) ==
    edits

\* apply_edits step 3: stable sort by start_line, descending
RECURSIVE SortFrom(_, _, _)
SortFrom(edits, i, acc) ==
    IF i > Len(edits) THEN acc
    ELSE LET e == edits[i]
             k == Cardinality({j \in 1..Len(acc) : acc[j].start_line >= e.start_line})
         IN  SortFrom(edits, i + 1, SubSeq(acc, 1, k) \o <<e>> \o SubSeq(acc, k + 1, Len(acc)))

SortByStartDesc(edits) ==
    SortFrom(edits, 1, << >>)

Overlaps(sorted) ==
    \E i \in 1..(Len(sorted) - 1) : ~(sorted[i + 1].end_line < sorted[i].start_line)

ReplaceRange(lines, e) ==
    SubSeq(lines, 1, e.start_line - 1) \o ContentLines(e.content)
        \o SubSeq(lines, e.end_line + 1, Len(lines))

\* apply_edits step 4
RECURSIVE ApplyFrom(_, _, _)
ApplyFrom(lines, sorted, i) ==
    IF i > Len(sorted) THEN lines
    ELSE ApplyFrom(ReplaceRange(lines, sorted[i]), sorted, i + 1)

\* the hashlined view: line number, 3-hex hash value, text
HashlinedView(hashes, lines) ==
    [i \in 1..Len(lines) |-> <<i, line_hash(hashes, lines[i]), lines[i]>>]

\* apply_edits on the lines read from the file: the result and the lines to write
apply_edits(hashes, lines, edits) ==
    IF ~VerifyAll(hashes, lines, edits)
    THEN [kind |-> "HashMismatch", view |-> HashlinedView(hashes, lines), write |-> None]
    ELSE LET sorted == SortByStartDesc(edits)
         IN  IF Overlaps(sorted)
             THEN [kind |-> "Overlap", view |-> << >>, write |-> None]
             ELSE [kind |-> "Applied", view |-> << >>, write |-> Some(ApplyFrom(lines, sorted, 1))]

\* tool_edit up to the call of apply_edits: the error it returns, or the edits
tool_edit_parse(args) ==
    IF ~IsSome(args.path) THEN [err |-> "missing required parameter: path", edits |-> << >>]
    ELSE IF ~IsSome(args.edits) THEN [err |-> "missing required parameter: edits", edits |-> << >>]
    ELSE parse_edits(Unwrap(args.edits), 1, << >>)

\* tool_edit: response, file and session after the call
tool_edit(args, hashes, lines, reads) ==
    LET p == tool_edit_parse(args)
    IN  IF p.err # ""
        THEN [response |-> [isError |-> TRUE, kind |-> p.err, view |-> << >>],
              lines |-> lines, reads |-> reads]
        ELSE LET r == apply_edits(hashes, lines, p.edits)
             IN  [response |-> [isError |-> r.kind # "Applied", kind |-> r.kind, view |-> r.view],
                  lines |-> IF IsSome(r.write) THEN Unwrap(r.write) ELSE lines,
                  reads |-> reads + 1]

(***************************************************************************)
(* Ranking (search/rank.rs).  A Match carries the fields the ranking, the  *)
(* faceting and the formatting read.  Its path is a sequence of            *)
(* components, each a sequence of characters.  The file system is the set  *)
(* of paths that exist.                                                    *)
(***************************************************************************)
LowerCase == <<"a", "b", "c", "d", "e", "f", "g", "h", "i", "j", "k", "l", "m",
               "n", "o", "p", "q", "r", "s", "t", "u", "v", "w", "x", "y", "z">>
UpperCase == <<"A", "B", "C", "D", "E", "F", "G", "H", "I", "J", "K", "L", "M",
               "N", "O", "P", "Q", "R", "S", "T", "U", "V", "W", "X", "Y", "Z">>

\* the byte value of a character
ByteOf(c) ==
    IF \E i \in 1..26 : LowerCase[i] = c THEN 96 + (CHOOSE i \in 1..26 : LowerCase[i] = c)
    ELSE IF \E i \in 1..26 : UpperCase[i] = c THEN 64 + (CHOOSE i \in 1..26 : UpperCase[i] = c)
    ELSE IF IsDigit(c, 10) THEN 48 + DigitValue(c)
    ELSE IF c = "_" THEN 95
    ELSE IF c = "." THEN 46
    ELSE 47

to_ascii_lowercase(str) ==
    [i \in 1..Len(str) |->
        IF \E k \in 1..26 : UpperCase[k] = str[i]
        THEN LowerCase[CHOOSE k \in 1..26 : UpperCase[k] = str[i]]
        ELSE str[i]]

StrStartsWith(str, prefix) ==
    Len(prefix) <= Len(str) /\ SubSeq(str, 1, Len(prefix)) = prefix

StrContains(str, sub) ==
    \E i \in 0..(Len(str) - Len(sub)) : SubSeq(str, i + 1, i + Len(sub)) = sub

\* Ord on byte strings: -1, 0 or 1
RECURSIVE StrCmp(_, _)
StrCmp(x, y) ==
    IF x = << >> /\ y = << >> THEN 0
    ELSE IF x = << >> THEN -1
    ELSE IF y = << >> THEN 1
    ELSE IF ByteOf(Head(x)) < ByteOf(Head(y)) THEN -1
    ELSE IF ByteOf(Head(x)) > ByteOf(Head(y)) THEN 1
    ELSE StrCmp(Tail(x), Tail(y))

\* Ord on paths: component by component
RECURSIVE PathCmp(_, _)
PathCmp(p, q) ==
    IF p = << >> /\ q = << >> THEN 0
    ELSE IF p = << >> THEN -1
    ELSE IF q = << >> THEN 1
    ELSE IF StrCmp(Head(p), Head(q)) # 0 THEN StrCmp(Head(p), Head(q))
    ELSE PathCmp(Tail(p), Tail(q))

\* Path::parent
PathParent(p) == IF p = << >> THEN None ELSE Some(SubSeq(p, 1, Len(p) - 1))

\* Path::file_stem: the file name up to its last dot, a leading dot aside
file_stem(p) ==
    IF p = << >> THEN None
    ELSE LET name == p[Len(p)]
             dots == {i \in 2..Len(name) : name[i] = "."}
         IN  IF dots = {} THEN Some(name)
             ELSE Some(SubSeq(name, 1, (CHOOSE i \in dots : \A j \in dots : j <= i) - 1))

VENDOR_DIRS == {<<"n","o","d","e","_","m","o","d","u","l","e","s">>, <<"v","e","n","d","o","r">>,
                <<"d","i","s","t">>, <<"b","u","i","l","d">>, <<".","g","i","t">>,
                <<"t","a","r","g","e","t">>, <<"_","_","p","y","c","a","c","h","e","_","_">>,
                <<".","v","e","n","v">>, <<"v","e","n","v">>, <<"p","k","g">>, <<"o","u","t">>}

RANK_MANIFESTS == {<<"C","a","r","g","o",".","t","o","m","l">>,
                   <<"p","a","c","k","a","g","e",".","j","s","o","n">>,
                   <<"p","y","p","r","o","j","e","c","t",".","t","o","m","l">>,
                   <<"g","o",".","m","o","d">>, <<"p","o","m",".","x","m","l">>,
                   <<"b","u","i","l","d",".","g","r","a","d","l","e">>}

\* a boost that looks for the query anywhere in the stem before it looks at the prefix
basename_boost_contains_first(path, query) ==
    IF query = << >> THEN 0
    ELSE IF ~IsSome(file_stem(path)) THEN 0
    ELSE LET stem_lower == to_ascii_lowercase(Unwrap(file_stem(path)))
             query_lower == to_ascii_lowercase(query)
         IN  IF stem_lower = query_lower THEN 300
             ELSE IF StrContains(stem_lower, query_lower) THEN 100
             ELSE IF /\ StrStartsWith(stem_lower, query_lower)
                     /\ Len(stem_lower) > Len(query_lower)
                     /\ stem_lower[Len(query_lower) + 1] \in {"_", "."}
                  THEN 150
             ELSE 0

\* a boost for equal stems only
basename_boost_equal_only(path, query) ==
    IF query = << >> THEN 0
    ELSE IF ~IsSome(file_stem(path)) THEN 0
    ELSE LET stem_lower == to_ascii_lowercase(Unwrap(file_stem(path)))
             query_lower == to_ascii_lowercase(query)
         IN  IF stem_lower = query_lower THEN 300
             ELSE 0

basename_boost(path, query) ==
    IF query = << >> THEN 0
    ELSE IF ~IsSome(file_stem(path)) THEN 0
    ELSE LET stem_lower == to_ascii_lowercase(Unwrap(file_stem(path)))
             query_lower == to_ascii_lowercase(query)
         IN  IF stem_lower = query_lower THEN 300
             ELSE IF /\ StrStartsWith(stem_lower, query_lower)
                     /\ Len(stem_lower) > Len(query_lower)
                     /\ stem_lower[Len(query_lower) + 1] \in {"_", "."}
                  THEN 150
             ELSE IF StrContains(stem_lower, query_lower) THEN 100
             ELSE 0

scope_proximity(path, scope) ==
    LET rel == IF PathStartsWith(path, scope) THEN SubSeq(path, Len(scope) + 1, Len(path)) ELSE path
    IN  Max(0, 200 - Len(rel) * 20)

\* rank.rs package_root: the search starts at the parent of its argument
RECURSIVE RankRootFrom(_, _)
RankRootFrom(fs, dir) ==
    IF \E m \in RANK_MANIFESTS : Append(dir, m) \in fs THEN Some(dir)
    ELSE IF dir = << >> THEN None
    ELSE RankRootFrom(fs, SubSeq(dir, 1, Len(dir) - 1))

rank_package_root(fs, path) ==
    IF path = << >> THEN None ELSE RankRootFrom(fs, Unwrap(PathParent(path)))

context_proximity(fs, match_path, ctx_parent, ctx_pkg_root) ==
    IF IsSome(ctx_parent) /\ PathParent(match_path) = ctx_parent THEN 100
    ELSE IF IsSome(ctx_pkg_root)
         THEN IF ~IsSome(PathParent(match_path)) THEN 0
              ELSE IF rank_package_root(fs, Unwrap(PathParent(match_path))) = ctx_pkg_root
                   THEN 75 ELSE 0
         ELSE 0

is_vendor_path(path) == \E i \in 1..Len(path) : path[i] \in VENDOR_DIRS

\* now.duration_since(mtime).unwrap_or_default().as_secs(), and its bucket
recency(now, mtime) ==
    LET age == IF now >= mtime THEN now - mtime ELSE 0
    IN  IF age <= 3600 THEN 100
        ELSE IF age <= 86400 THEN 80
        ELSE IF age <= 604800 THEN 50
        ELSE IF age <= 2592000 THEN 20
        ELSE 0

\* score, with the time recency reads from the clock
score(m, query, scope, context, fs, now) ==
    LET ctx_parent == IF IsSome(context) THEN PathParent(Unwrap(context)) ELSE None
        ctx_pkg_root == IF IsSome(context) THEN rank_package_root(fs, Unwrap(context)) ELSE None
    IN  (IF m.is_definition THEN m.def_weight * 10 ELSE 0)
        + (IF m.exact THEN 500 ELSE 0)
        + scope_proximity(m.path, scope)
        + recency(now, m.mtime)
        + (IF m.file_lines > 0 /\ m.file_lines < 200 THEN 50 ELSE 0)
        + (IF IsSome(ctx_parent) \/ IsSome(ctx_pkg_root)
           THEN context_proximity(fs, m.path, ctx_parent, ctx_pkg_root) ELSE 0)
        + basename_boost(m.path, query)
        - (IF is_vendor_path(m.path) THEN 200 ELSE 0)

\* the comparator of sort_by: TRUE when a is ordered strictly before b
RankLess(a, b, sa, sb) ==
    \/ sb < sa
    \/ sb = sa /\ PathCmp(a.path, b.path) < 0
    \/ sb = sa /\ PathCmp(a.path, b.path) = 0 /\ a.line < b.line

(***************************************************************************)
(* SpecBloom: one filter, created by new() and fed by insert().            *)
(***************************************************************************)
MaxExpectedItems == 8

Idents == {<<"f","o","o">>, <<"b","a","r">>, <<"x">>, <<"_","1">>, <<"f","o">>}
FprTargets == {"0.01", "0.5"}

BloomIdle ==
    /\ bf = BloomFilterNew(1, "0.01")
    /\ bfInserted = {}
    /\ bfQuery = None

BloomCacheIdle ==
    /\ filters = [x \in {} |-> None]
    /\ builtFrom = [x \in {} |-> None]
    /\ bcLast = None

RankIdle ==
    /\ clock = 0
    /\ rankArgs = None
    /\ rankInput = << >>
    /\ rankList = << >>
    /\ rankPos = <<0, 0>>
    /\ rankScoreA = None
    /\ rankClocks = {}
    /\ rankDone = << >>
    /\ nTicks = 0

FacetIdle ==
    /\ facetInput = << >>
    /\ facetResult = None

ExpandIdle ==
    /\ expansions = {}
    /\ exLast = None
    /\ nSearches = 0

McpIdle ==
    /\ edit_mode = FALSE
    /\ mcpTrace = << >>
    /\ mcpPending = None
    /\ stdout = << >>
    /\ mcpFile = << >>
    /\ mcpEditCalls = 0

ReadIdle ==
    /\ readCache = EmptyMap
    /\ readLast = None
    /\ nReads = 0

SectionIdle ==
    /\ secBuf = << >>
    /\ secRange = << >>
    /\ secResult = None

TokenizerIdle ==
    /\ tokBytes = << >>
    /\ tokIter = [pos |-> 0, state |-> "Code"]
    /\ tokInNext = FALSE
    /\ tokYielded = << >>
    /\ tokReturns = << >>
    /\ tokPrev = None

BoostIdle ==
    /\ boostArgs = None
    /\ boostResult = None

GapIdle ==
    /\ gapInput = None
    /\ gapResult = None

PureIdle ==
    /\ SectionIdle
    /\ TokenizerIdle
    /\ BoostIdle
    /\ GapIdle

StripIdle ==
    /\ stripInput = None
    /\ stripResult = None

MultiIdle ==
    /\ multiInput = None
    /\ multiResult = None

MarkdownIdle ==
    /\ mdInput = None
    /\ mdResult = None

IndexConcIdle == indexers = EmptyMap

BloomConcIdle ==
    /\ bloomCalls = EmptyMap
    /\ supplied = {}

RestIdle ==
    /\ StripIdle
    /\ MultiIdle
    /\ MarkdownIdle
    /\ IndexConcIdle
    /\ BloomConcIdle

ToolsIdle ==
    /\ FacetIdle
    /\ ExpandIdle
    /\ McpIdle
    /\ ReadIdle
    /\ PureIdle
    /\ RestIdle

OutlineIdle ==
    /\ outlineEntries = EmptyMap
    /\ everStored = {}
    /\ ocLast = None

ConcIdle ==
    /\ pc = EmptyMap
    /\ callArgs = EmptyMap
    /\ lockHolder = None
    /\ snapshot = EmptyMap
    /\ pending = EmptyMap
    /\ tmpFile = None
    /\ callResponse = EmptyMap
    /\ fileAtStart = << >>

EditIdle ==
    /\ fileLines = << >>
    /\ stableHash = EmptyMap
    /\ editLast = None
    /\ editPrev = None
    /\ nRepeats = 0
    /\ sessionReads = 0

IndexIdle ==
    /\ symbols = EmptyMap
    /\ indexed_files = EmptyMap
    /\ disk = EmptyMap
    /\ nOps = 0
    /\ idxLast = None
    /\ lastLookup = None
    /\ lastIndexed = EmptyMap

InitBloom ==
    /\ \E n \in 1..MaxExpectedItems, p \in FprTargets : bf = BloomFilterNew(n, p)
    /\ bfInserted = {}
    /\ bfQuery = None
    /\ BloomCacheIdle
    /\ IndexIdle
    /\ EditIdle
    /\ ConcIdle
    /\ OutlineIdle
    /\ RankIdle
    /\ ToolsIdle

DoBloomInsert ==
    \E item \in Idents :
        /\ bf' = BloomInsert(bf, item)
        /\ bfInserted' = bfInserted \cup {item}
        /\ bfQuery' = None
        /\ UNCHANGED <<bloomCacheVars, indexVars, editVars, concVars, outlineVars, rankVars, toolVars>>

DoBloomContains ==
    \E item \in Idents :
        /\ bfQuery' = Some([item |-> item, answer |-> BloomContains(bf, item)])
        /\ UNCHANGED <<bf, bfInserted, bloomCacheVars, indexVars, editVars, concVars, outlineVars, rankVars, toolVars>>

NextBloom == DoBloomInsert \/ DoBloomContains

SpecBloom == InitBloom /\ [][NextBloom]_vars

(***************************************************************************)
(* C1.  The Bloom filter has no false negatives: every item inserted since *)
(* new() is reported present by contains, and a contains call that         *)
(* answered false was for an item that was never inserted.                 *)
(***************************************************************************)
C1_NoFalseNegatives ==
    /\ \A s \in bfInserted : BloomContains(bf, s)
    /\ (IsSome(bfQuery) /\ Unwrap(bfQuery).answer = FALSE) => Unwrap(bfQuery).item \notin bfInserted

\* two items are in, a contains call for one of them was answered, and the
\* filter still tells some item apart
C1_Witness ==
    /\ Cardinality(bfInserted) >= 2
    /\ IsSome(bfQuery)
    /\ Unwrap(bfQuery).item \in bfInserted
    /\ Unwrap(bfQuery).answer = TRUE
    /\ \E t \in Idents \ bfInserted : ~BloomContains(bf, t)

(***************************************************************************)
(* SpecBloomCache: calls of BloomFilterCache.contains, one at a time.      *)
(***************************************************************************)
MaxMtime == 1

CachePaths == {"p.rs", "q.rs"}
Mtimes == 0..MaxMtime
CacheContents == {
    <<>>,
    <<"f","o","o">>,
    <<"b","a","r">>,
    <<"dq","f","o","o","dq","sp","x">> }
CacheSymbols == {<<"f","o","o">>, <<"b","a","r">>, <<"x">>}

InitBloomCache ==
    /\ BloomIdle
    /\ BloomCacheIdle
    /\ IndexIdle
    /\ EditIdle
    /\ ConcIdle
    /\ OutlineIdle
    /\ RankIdle
    /\ ToolsIdle

DoCacheContains ==
    \E path \in CachePaths, mtime \in Mtimes, content \in CacheContents, symbol \in CacheSymbols :
        LET r == BloomCacheContains(filters, path, mtime, content, symbol)
            hit == CacheHit(filters, path, mtime)
        IN  /\ filters' = r.filters
            /\ builtFrom' = IF hit THEN builtFrom ELSE MapPut(builtFrom, path, content)
            /\ bcLast' = Some([path |-> path, mtime |-> mtime, content |-> content,
                               symbol |-> symbol, answer |-> r.answer,
                               before |-> MapGet(filters, path),
                               beforeContent |-> MapGet(builtFrom, path)])
            /\ UNCHANGED <<bloomVars, indexVars, editVars, concVars, outlineVars, rankVars, toolVars>>

NextBloomCache == DoCacheContains

SpecBloomCache == InitBloomCache /\ [][NextBloomCache]_vars

IdentSet(content) ==
    LET ids == extract_identifiers(content) IN {ids[i] : i \in DOMAIN ids}

\* the last call found an entry for its path with the mtime it passed
LastCallSameMtime ==
    /\ IsSome(bcLast)
    /\ IsSome(Unwrap(bcLast).before)
    /\ Unwrap(Unwrap(bcLast).before).mtime = Unwrap(bcLast).mtime

\* the last call found no entry for its path, or one with another mtime
LastCallOtherMtime ==
    /\ IsSome(bcLast)
    /\ \/ ~IsSome(Unwrap(bcLast).before)
       \/ Unwrap(Unwrap(bcLast).before).mtime # Unwrap(bcLast).mtime

(***************************************************************************)
(* C8.  The Bloom cache trusts mtime: a contains call whose mtime equals   *)
(* the cached entry's mtime is answered from the filter built from the     *)
(* content of the call that cached it, whatever content the call passes,   *)
(* and leaves the entry as it was.                                         *)
(***************************************************************************)
C8_CacheTrustsMtime ==
    LastCallSameMtime =>
        LET c == Unwrap(bcLast)
            c1 == Unwrap(c.beforeContent)
        IN  /\ c.answer = BloomContains(build_filter(c1), c.symbol)
            /\ filters[c.path] = Unwrap(c.before)
            /\ builtFrom[c.path] = c1

\* a same-mtime call that passed other content, and whose answer is not the
\* one the passed content would give
C8_Witness ==
    /\ LastCallSameMtime
    /\ IdentSet(Unwrap(Unwrap(bcLast).beforeContent)) # {}
    /\ Unwrap(bcLast).content # Unwrap(Unwrap(bcLast).beforeContent)
    /\ Unwrap(bcLast).symbol \in IdentSet(Unwrap(bcLast).content)
    /\ Unwrap(bcLast).answer = FALSE

(***************************************************************************)
(* C9.  A contains call whose mtime differs from the cached entry's (or    *)
(* that finds no entry) rebuilds the filter from the content it passes,    *)
(* stores it under (path, mtime) and answers from it: every identifier of  *)
(* the passed content is then reported present.                            *)
(***************************************************************************)
C9_StaleEntryRebuilt ==
    LastCallOtherMtime =>
        LET c == Unwrap(bcLast)
            fresh == build_filter(c.content)
        IN  /\ filters[c.path] = [filter |-> fresh, mtime |-> c.mtime]
            /\ c.answer = BloomContains(fresh, c.symbol)
            /\ \A id \in IdentSet(c.content) : BloomContains(filters[c.path].filter, id)
            /\ c.symbol \in IdentSet(c.content) => c.answer = TRUE

\* an entry with another mtime was replaced, and an identifier that only the
\* old content held is now reported absent
C9_Witness ==
    /\ LastCallOtherMtime
    /\ IsSome(Unwrap(bcLast).before)
    /\ Unwrap(bcLast).symbol \in IdentSet(Unwrap(Unwrap(bcLast).beforeContent))
    /\ Unwrap(bcLast).symbol \notin IdentSet(Unwrap(bcLast).content)
    /\ Unwrap(bcLast).answer = FALSE
    /\ IdentSet(Unwrap(bcLast).content) # {}

(***************************************************************************)
(* SpecIndex: build, index_file and lookup calls, one at a time, over a    *)
(* small tree of files that the environment rewrites.                      *)
(***************************************************************************)
MaxIndexOps == 3

IndexPaths == {<<"a", "x.rs">>, <<"ab", "y.rs">>, <<"a", "target", "x.rs">>}
IndexScopes == {<< >>, <<"a">>, <<"ab">>}
IndexContents == {"hello_world", "hello_updated", "impl_hello"}
IndexNames == {"hello", "world", "updated", "Foo"}

InitIndex ==
    /\ BloomIdle
    /\ BloomCacheIdle
    /\ EditIdle
    /\ ConcIdle
    /\ OutlineIdle
    /\ RankIdle
    /\ ToolsIdle
    /\ symbols = EmptyMap
    /\ indexed_files = EmptyMap
    /\ disk = [p \in IndexPaths |->
                [content |-> IF p = <<"ab", "y.rs">> THEN "impl_hello" ELSE "hello_world",
                 mtime |-> 0]]
    /\ nOps = 0
    /\ idxLast = None
    /\ lastLookup = None
    /\ lastIndexed = EmptyMap

\* the environment rewrites a file
DiskWrite ==
    \E p \in IndexPaths, content \in IndexContents :
        /\ nOps < MaxIndexOps
        /\ disk[p].content # content
        /\ disk' = [disk EXCEPT ![p] = [content |-> content, mtime |-> disk[p].mtime + 1]]
        /\ nOps' = nOps + 1
        /\ idxLast' = None
        /\ UNCHANGED <<symbols, indexed_files, lastLookup, lastIndexed, bloomVars, bloomCacheVars, editVars, concVars, outlineVars, rankVars, toolVars>>

DoBuild ==
    \E scope \in IndexScopes :
        \E order \in Orderings(WalkedFiles(disk, scope)) :
            LET r == BuildInsert(symbols, indexed_files, disk, order, 1)
            IN  /\ nOps < MaxIndexOps
                /\ symbols' = r.symbols
                /\ indexed_files' = r.indexed_files
                /\ nOps' = nOps + 1
                /\ idxLast' = None
                /\ lastLookup' = None
                /\ lastIndexed' = [p \in (DOMAIN lastIndexed) \cup WalkedFiles(disk, scope) |->
                                       IF p \in WalkedFiles(disk, scope) THEN disk[p].content
                                       ELSE lastIndexed[p]]
                /\ UNCHANGED <<disk, bloomVars, bloomCacheVars, editVars, concVars, outlineVars, rankVars, toolVars>>

DoIndexFile ==
    \E path \in IndexPaths, content \in IndexContents :
        LET r == index_file(symbols, indexed_files, path, content, disk[path].mtime)
        IN  /\ nOps < MaxIndexOps
            /\ symbols' = r.symbols
            /\ indexed_files' = r.indexed_files
            /\ nOps' = nOps + 1
            /\ idxLast' = Some([path |-> path, content |-> content])
            /\ lastLookup' = None
            /\ lastIndexed' = MapPut(lastIndexed, path, content)
            /\ UNCHANGED <<disk, bloomVars, bloomCacheVars, editVars, concVars, outlineVars, rankVars, toolVars>>

DoLookup ==
    \E name \in IndexNames, scope \in IndexScopes :
        /\ lastLookup' = Some([name |-> name, scope |-> scope,
                               result |-> lookup(symbols, name, scope),
                               definitions |-> lookup_definitions(symbols, name, scope)])
        /\ UNCHANGED <<symbols, indexed_files, disk, nOps, idxLast, lastIndexed, bloomVars, bloomCacheVars, editVars, concVars, outlineVars, rankVars, toolVars>>

NextIndex == DiskWrite \/ DoBuild \/ DoIndexFile \/ DoLookup

SpecIndex == InitIndex /\ [][NextIndex]_vars

\* the (line, is_definition) pairs stored for `path` under `name`, in order
StoredFor(path, name) ==
    IF name \notin DOMAIN symbols THEN << >>
    ELSE LET own == SelectSeq(symbols[name], LAMBDA loc : loc.path = path)
         IN  [i \in DOMAIN own |-> <<own[i].line, own[i].is_definition>>]

\* the (line, is_definition) pairs the extraction gives for `name`, in order
ExtractedFor(path, content, name) ==
    LET own == SelectSeq(extract_symbols(path, content), LAMBDA e : e[1] = name)
    IN  [i \in DOMAIN own |-> <<own[i][2], own[i][3]>>]

AllNames == IndexNames \cup DOMAIN symbols

(***************************************************************************)
(* C6.  After index_file(path, content) returns, the locations stored for  *)
(* path are exactly the definitions extracted from content: under every    *)
(* name, the locations of path are the extracted ones, so nothing of an    *)
(* earlier indexing of path is left.                                       *)
(***************************************************************************)
C6_IndexFileReplaces ==
    IsSome(idxLast) =>
        \A name \in AllNames :
            StoredFor(Unwrap(idxLast).path, name)
                = ExtractedFor(Unwrap(idxLast).path, Unwrap(idxLast).content, name)

\* a file indexed before (by build or index_file) was re-indexed with content
\* that no longer defines "world", while another file still defines it
C6_Witness ==
    /\ IsSome(idxLast)
    /\ Unwrap(idxLast).path = <<"a", "x.rs">>
    /\ Unwrap(idxLast).content = "hello_updated"
    /\ "world" \in DOMAIN symbols
    /\ symbols["world"] # << >>
    /\ StoredFor(<<"a", "x.rs">>, "world") = << >>
    /\ StoredFor(<<"a", "x.rs">>, "updated") # << >>

(***************************************************************************)
(* C7.  lookup(name, scope) returns exactly the locations stored under     *)
(* name whose path has scope as a prefix, and lookup_definitions exactly   *)
(* those of them that are definitions; nothing outside scope is returned.  *)
(***************************************************************************)
C7_LookupWithinScope ==
    IsSome(lastLookup) =>
        LET q == Unwrap(lastLookup)
            stored == IF q.name \in DOMAIN symbols THEN symbols[q.name] ELSE << >>
            under(loc) == /\ Len(loc.path) >= Len(q.scope)
                          /\ \A i \in 1..Len(q.scope) : loc.path[i] = q.scope[i]
            inScope == {i \in DOMAIN stored : under(stored[i])}
            inScopeDefs == {i \in inScope : stored[i].is_definition}
        IN  /\ \A i \in DOMAIN q.result : under(q.result[i])
            /\ Len(q.result) = Cardinality(inScope)
            /\ \A i \in inScope :
                  Cardinality({j \in DOMAIN q.result : q.result[j] = stored[i]})
                    = Cardinality({j \in inScope : stored[j] = stored[i]})
            /\ \A i \in DOMAIN q.definitions :
                  under(q.definitions[i]) /\ q.definitions[i].is_definition
            /\ Len(q.definitions) = Cardinality(inScopeDefs)
            /\ \A i \in inScopeDefs :
                  Cardinality({j \in DOMAIN q.definitions : q.definitions[j] = stored[i]})
                    = Cardinality({j \in inScopeDefs : stored[j] = stored[i]})

\* a lookup that returned something while the name also has a location
\* outside the scope
C7_Witness ==
    /\ IsSome(lastLookup)
    /\ Unwrap(lastLookup).scope = <<"a">>
    /\ Len(Unwrap(lastLookup).result) >= 1
    /\ Unwrap(lastLookup).definitions = Unwrap(lastLookup).result
    /\ Len(symbols[Unwrap(lastLookup).name]) > Len(Unwrap(lastLookup).result)

(***************************************************************************)
(* SpecEdit: one tilth_edit call on a file, then re-sends of the same      *)
(* call.  The file, the hash of each line text and the call are arbitrary. *)
(***************************************************************************)
MaxRepeats == 1

LineA == <<"a">>
LineB == <<"b">>
LineTexts == {LineA, LineB}
EditFiles == {<<LineA>>, <<LineB>>, <<LineA, LineA>>, <<LineA, LineB>>,
              <<LineB, LineA>>, <<LineB, LineB>>}

\* stable_hash: one without and one with a collision in the low 12 bits
StableHashes == {[t \in LineTexts |-> IF t = LineA THEN 1 ELSE 2],
                 [t \in LineTexts |-> IF t = LineA THEN 1 ELSE 4097]}

AnchorTexts == {<<"1", ":", "0", "0", "1">>, <<"1", ":", "0", "0", "2">>,
                <<"2", ":", "0", "0", "1">>, <<"2", ":", "0", "0", "2">>}
BadAnchorText == <<"1", "0", "0", "1">>
EditContents == {<< >>, <<"a">>, <<"b">>, <<"a", "nl", "b">>}

AnchorLine(text) == Unwrap(parse_anchor(text))[1]

Entry(start, end, content) == [start |-> start, end |-> end, content |-> content]

\* entries whose range is not inverted
GoodEntries ==
    {Entry(Some(st), en, Some(c)) :
        st \in AnchorTexts, en \in {None} \cup {Some(t) : t \in AnchorTexts}, c \in EditContents}

WellFormedEntries ==
    {e \in GoodEntries : IsSome(e.end) => AnchorLine(Unwrap(e.end)) >= AnchorLine(Unwrap(e.start))}

MalformedEntries ==
    {Entry(None, None, Some(<<"a">>)),
     Entry(Some(BadAnchorText), None, Some(<<"a">>)),
     Entry(Some(<<"1", ":", "0", "0", "1">>), Some(BadAnchorText), Some(<<"a">>)),
     Entry(Some(<<"1", ":", "0", "0", "1">>), None, None)}

EditEntries == WellFormedEntries \cup MalformedEntries

EditBatches == {<< >>} \cup {<<e>> : e \in EditEntries}
                  \cup {<<e1, e2>> : e1 \in EditEntries, e2 \in EditEntries}

EditArgs ==
    {[path |-> Some("f"), edits |-> Some(b)] : b \in EditBatches}
        \cup {[path |-> None, edits |-> Some(<< >>)], [path |-> Some("f"), edits |-> None]}

InitEdit ==
    /\ BloomIdle
    /\ BloomCacheIdle
    /\ IndexIdle
    /\ ConcIdle
    /\ OutlineIdle
    /\ RankIdle
    /\ ToolsIdle
    /\ fileLines \in EditFiles
    /\ stableHash \in StableHashes
    /\ editLast = None
    /\ editPrev = None
    /\ nRepeats = 0
    /\ sessionReads = 0

Call(args) ==
    LET r == tool_edit(args, stableHash, fileLines, sessionReads)
    IN  /\ fileLines' = r.lines
        /\ sessionReads' = r.reads
        /\ editPrev' = editLast
        /\ editLast' = Some([args |-> args, before |-> fileLines, response |-> r.response])
        /\ UNCHANGED <<stableHash, bloomVars, bloomCacheVars, indexVars, concVars, outlineVars, rankVars, toolVars>>

\* a first call
DoToolEdit ==
    \E args \in EditArgs :
        /\ editLast = None
        /\ Call(args)
        /\ UNCHANGED nRepeats

\* the same call again
DoRepeatEdit ==
    /\ IsSome(editLast)
    /\ nRepeats < MaxRepeats
    /\ Call(Unwrap(editLast).args)
    /\ nRepeats' = nRepeats + 1

NextEdit == DoToolEdit \/ DoRepeatEdit

SpecEdit == InitEdit /\ [][NextEdit]_vars

(***************************************************************************)
(* What the claims about a call speak of, read off the call's arguments.   *)
(***************************************************************************)
\* the batch of a call, and whether every entry is well formed
BatchOf(call) == IF IsSome(call.args.edits) THEN Unwrap(call.args.edits) ELSE << >>

CallWellFormed(call) ==
    /\ IsSome(call.args.path)
    /\ IsSome(call.args.edits)
    /\ \A i \in 1..Len(BatchOf(call)) : BatchOf(call)[i] \in WellFormedEntries

\* start, end and content of the i-th entry of a well-formed batch
StartOf(entry) == Unwrap(parse_anchor(Unwrap(entry.start)))
EndOf(entry) == IF IsSome(entry.end) THEN Unwrap(parse_anchor(Unwrap(entry.end))) ELSE StartOf(entry)

AnchorsVerify(call) ==
    \A i \in 1..Len(BatchOf(call)) :
        \A a \in {StartOf(BatchOf(call)[i]), EndOf(BatchOf(call)[i])} :
            /\ a[1] <= Len(call.before)
            /\ stableHash[call.before[a[1]]] % 4096 = a[2]

RangesDisjoint(call) ==
    \A i, j \in 1..Len(BatchOf(call)) :
        i # j => \/ EndOf(BatchOf(call)[i])[1] < StartOf(BatchOf(call)[j])[1]
                 \/ EndOf(BatchOf(call)[j])[1] < StartOf(BatchOf(call)[i])[1]

\* the file with every range replaced at once: walk the old lines; at the
\* start of an entry's range put its content, skip the rest of the range
RECURSIVE SimultaneousFrom(_, _, _)
SimultaneousFrom(before, batch, n) ==
    IF n > Len(before) THEN << >>
    ELSE LET starting == {i \in 1..Len(batch) : StartOf(batch[i])[1] = n}
             covering == {i \in 1..Len(batch) :
                            StartOf(batch[i])[1] <= n /\ n <= EndOf(batch[i])[1]}
             here == IF starting # {}
                     THEN ContentLines(Unwrap(batch[CHOOSE i \in starting : TRUE].content))
                     ELSE IF covering # {} THEN << >> ELSE <<before[n]>>
         IN  here \o SimultaneousFrom(before, batch, n + 1)

Simultaneous(call) == SimultaneousFrom(call.before, BatchOf(call), 1)

\* the hashlined view in a response is the one of the file as it is now
ViewIsCurrent(view) ==
    /\ Len(view) = Len(fileLines)
    /\ \A i \in 1..Len(view) : view[i] = <<i, stableHash[fileLines[i]] % 4096, fileLines[i]>>

(***************************************************************************)
(* C2.  Edit failures are never partial.  A malformed entry, an anchor     *)
(* that does not verify or an overlap anywhere in the batch makes the call *)
(* fail with the file exactly as before; and whenever the file differs     *)
(* from before, every edit of the batch has been applied.                  *)
(***************************************************************************)
C2_EditAllOrNothing ==
    IsSome(editLast) =>
        LET call == Unwrap(editLast)
        IN  /\ (~CallWellFormed(call) \/ ~AnchorsVerify(call) \/ ~RangesDisjoint(call))
                 => (call.response.isError /\ fileLines = call.before)
            /\ call.response.isError => fileLines = call.before
            /\ fileLines # call.before
                 => /\ CallWellFormed(call) /\ AnchorsVerify(call) /\ RangesDisjoint(call)
                    /\ call.response.kind = "Applied"
                    /\ fileLines = Simultaneous(call)

\* a batch whose first entry alone would change the file and whose second
\* entry is malformed: the call failed and the file is as before
C2_Witness ==
    /\ IsSome(editLast)
    /\ Len(BatchOf(Unwrap(editLast))) = 2
    /\ BatchOf(Unwrap(editLast))[1] \in WellFormedEntries
    /\ BatchOf(Unwrap(editLast))[2] \in MalformedEntries
    /\ LET call == Unwrap(editLast)
           first == [call EXCEPT !.args.edits = Some(<<BatchOf(call)[1]>>)]
       IN  /\ AnchorsVerify(first)
           /\ Simultaneous(first) # call.before
           /\ call.response.isError
           /\ fileLines = call.before

(***************************************************************************)
(* C4.  A batch of non-overlapping edits whose anchors all verify is       *)
(* applied, the file becomes the file read with every range replaced by    *)
(* its content at once, and listing the edits in the other order gives the *)
(* same file.                                                              *)
(***************************************************************************)
C4_SimultaneousReplacement ==
    IsSome(editLast) =>
        LET call == Unwrap(editLast)
            batch == BatchOf(call)
            reversed == [i \in 1..Len(batch) |-> batch[Len(batch) + 1 - i]]
            other == [path |-> call.args.path, edits |-> Some(reversed)]
        IN  (CallWellFormed(call) /\ AnchorsVerify(call) /\ RangesDisjoint(call))
                => /\ call.response.kind = "Applied"
                   /\ fileLines = Simultaneous(call)
                   /\ tool_edit(other, stableHash, call.before, 0).lines = fileLines

\* two edits listed lowest first, the first of which changes the number of
\* lines, were applied
C4_Witness ==
    /\ IsSome(editLast)
    /\ Unwrap(editLast).response.kind = "Applied"
    /\ Len(BatchOf(Unwrap(editLast))) = 2
    /\ StartOf(BatchOf(Unwrap(editLast))[1])[1] < StartOf(BatchOf(Unwrap(editLast))[2])[1]
    /\ Len(ContentLines(Unwrap(BatchOf(Unwrap(editLast))[1].content))) = 2
    /\ Unwrap(BatchOf(Unwrap(editLast))[2].content) = <<"b">>
    /\ Len(fileLines) = 3

\* the last call re-sent the call before it, which had been applied
RepeatOfApplied ==
    /\ IsSome(editPrev)
    /\ IsSome(editLast)
    /\ Unwrap(editLast).args = Unwrap(editPrev).args
    /\ Unwrap(editPrev).response.kind = "Applied"

\* the repeat was rejected with the current view and changed nothing
RepeatRejected ==
    /\ Unwrap(editLast).response.isError
    /\ Unwrap(editLast).response.kind = "HashMismatch"
    /\ ViewIsCurrent(Unwrap(editLast).response.view)
    /\ fileLines = Unwrap(editLast).before

LowestEditChangedAnchorHash ==
    \E i \in 1..Len(BatchOf(Unwrap(editPrev))) :
        LET batch == BatchOf(Unwrap(editPrev))
            new == ContentLines(Unwrap(batch[i].content))
        IN  /\ \A j \in 1..Len(batch) : StartOf(batch[i])[1] <= StartOf(batch[j])[1]
            /\ new # << >>
            /\ stableHash[new[1]] % 4096 # StartOf(batch[i])[2]

Calls == {1, 2}

ConcEntries ==
    {Entry(Some(st), None, Some(c)) : st \in AnchorTexts,
                                      c \in {<< >>, <<"b">>, <<"a", "nl", "b">>}}
ConcArgs == {[path |-> Some("f"), edits |-> Some(<<e>>)] : e \in ConcEntries}
                \cup {[path |-> Some("f"), edits |-> Some(<<Entry(None, None, Some(<<"b">>))>>)]}

\* the mutex is never seen as held
MutexAlwaysFree(holder) ==
    TRUE

\* the mutex of the path can be taken
MutexFree(holder) ==
    holder = None

InitEditConc ==
    /\ BloomIdle
    /\ BloomCacheIdle
    /\ IndexIdle
    /\ fileLines \in EditFiles
    /\ stableHash \in StableHashes
    /\ editLast = None
    /\ editPrev = None
    /\ nRepeats = 0
    /\ sessionReads = 0
    /\ pc = [c \in Calls |-> "start"]
    /\ callArgs \in [Calls -> ConcArgs]
    /\ lockHolder = None
    /\ snapshot = [c \in Calls |-> << >>]
    /\ pending = [c \in Calls |-> None]
    /\ tmpFile = None
    /\ callResponse = [c \in Calls |-> None]
    /\ fileAtStart = fileLines
    /\ OutlineIdle
    /\ RankIdle
    /\ ToolsIdle

ConcFrame == UNCHANGED <<stableHash, editLast, editPrev, nRepeats, callArgs, fileAtStart,
                         bloomVars, bloomCacheVars, indexVars, outlineVars, rankVars, toolVars>>

\* tool_edit up to apply_edits: parse the arguments, record the read
ConcParse(c) ==
    /\ pc[c] = "start"
    /\ LET p == tool_edit_parse(callArgs[c])
       IN  IF p.err # ""
           THEN /\ pc' = [pc EXCEPT ![c] = "done"]
                /\ callResponse' = [callResponse EXCEPT
                                      ![c] = Some([isError |-> TRUE, kind |-> p.err, view |-> << >>])]
                /\ UNCHANGED sessionReads
           ELSE /\ pc' = [pc EXCEPT ![c] = "parsed"]
                /\ sessionReads' = sessionReads + 1
                /\ UNCHANGED callResponse
    /\ UNCHANGED <<fileLines, lockHolder, snapshot, pending, tmpFile>>
    /\ ConcFrame

ConcLock(c) ==
    /\ pc[c] = "parsed"
    /\ MutexFree(lockHolder)
    /\ lockHolder' = Some(c)
    /\ pc' = [pc EXCEPT ![c] = "locked"]
    /\ UNCHANGED <<fileLines, sessionReads, snapshot, pending, tmpFile, callResponse>>
    /\ ConcFrame

\* steps 1 to 4: read the file, verify the anchors, compute the new lines
ConcReadVerify(c) ==
    /\ pc[c] = "locked"
    /\ LET r == apply_edits(stableHash, fileLines, tool_edit_parse(callArgs[c]).edits)
       IN  /\ snapshot' = [snapshot EXCEPT ![c] = fileLines]
           /\ pending' = [pending EXCEPT ![c] = r.write]
           /\ callResponse' = [callResponse EXCEPT
                    ![c] = Some([isError |-> r.kind # "Applied", kind |-> r.kind, view |-> r.view])]
           /\ pc' = [pc EXCEPT ![c] = IF IsSome(r.write) THEN "verified" ELSE "release"]
    /\ UNCHANGED <<fileLines, sessionReads, lockHolder, tmpFile>>
    /\ ConcFrame

\* step 5, first half: write <path>.tmp
ConcWriteTmp(c) ==
    /\ pc[c] = "verified"
    /\ tmpFile' = pending[c]
    /\ pc' = [pc EXCEPT ![c] = "written"]
    /\ UNCHANGED <<fileLines, sessionReads, lockHolder, snapshot, pending, callResponse>>
    /\ ConcFrame

\* step 5, second half: rename <path>.tmp over <path>
ConcRename(c) ==
    /\ pc[c] = "written"
    /\ IsSome(tmpFile)
    /\ fileLines' = Unwrap(tmpFile)
    /\ tmpFile' = None
    /\ pc' = [pc EXCEPT ![c] = "release"]
    /\ UNCHANGED <<sessionReads, lockHolder, snapshot, pending, callResponse>>
    /\ ConcFrame

ConcUnlock(c) ==
    /\ pc[c] = "release"
    /\ lockHolder' = None
    /\ pc' = [pc EXCEPT ![c] = "done"]
    /\ UNCHANGED <<fileLines, sessionReads, snapshot, pending, tmpFile, callResponse>>
    /\ ConcFrame

NextEditConc ==
    \E c \in Calls :
        \/ ConcParse(c)
        \/ ConcLock(c)
        \/ ConcReadVerify(c)
        \/ ConcWriteTmp(c)
        \/ ConcRename(c)
        \/ ConcUnlock(c)

SpecEditConc == InitEditConc /\ [][NextEditConc]_vars

\* the file and the two responses when call c runs alone first and d after it
Serial(c, d) ==
    LET r1 == tool_edit(callArgs[c], stableHash, fileAtStart, 0)
        r2 == tool_edit(callArgs[d], stableHash, r1.lines, 0)
    IN  [lines |-> r2.lines, first |-> r1.response, second |-> r2.response]

SerialOutcome(c, d) ==
    /\ fileLines = Serial(c, d).lines
    /\ callResponse[c] = Some(Serial(c, d).first)
    /\ callResponse[d] = Some(Serial(c, d).second)

InCritical(c) == pc[c] \in {"locked", "verified", "written", "release"}

(***************************************************************************)
(* C5.  Two concurrent edit calls on one path exclude each other over      *)
(* read-verify-write: they are never between lock and unlock together, a   *)
(* call that has verified and not yet renamed still sees on disk the       *)
(* content it verified against, and when both are done the file and the    *)
(* responses are those of running the two calls one after the other in     *)
(* some order.                                                             *)
(***************************************************************************)
C5_EditsSerializable ==
    /\ ~(InCritical(1) /\ InCritical(2))
    /\ \A c \in Calls : pc[c] \in {"verified", "written"} => snapshot[c] = fileLines
    /\ (\A c \in Calls : pc[c] = "done") => (SerialOutcome(1, 2) \/ SerialOutcome(2, 1))

\* both calls were applied, the second one first, where the order matters
\* and where a call overwriting the other's result would give another file
C5_Witness ==
    /\ \A c \in Calls : pc[c] = "done" /\ ~Unwrap(callResponse[c]).isError
    /\ SerialOutcome(2, 1)
    /\ Serial(1, 2).lines # Serial(2, 1).lines
    /\ \A c \in Calls : fileLines # tool_edit(callArgs[c], stableHash, fileAtStart, 0).lines

(***************************************************************************)
(* OutlineCache.  get_or_compute follows its description: one entry per    *)
(* path, holding the mtime it was computed for and the outline.  The       *)
(* closure is given by the outline it would generate.                      *)
(***************************************************************************)
\* an entry is a hit whatever its mtime
OutlineHitIgnoresMtime(entries, path, mtime) ==
    path \in DOMAIN entries

\* an entry exists with matching mtime
OutlineHit(entries, path, mtime) ==
    /\ path \in DOMAIN entries
    /\ entries[path].mtime = mtime

get_or_compute(entries, path, mtime, f) ==
    IF OutlineHit(entries, path, mtime)
    THEN [returned |-> entries[path].outline, invoked |-> FALSE, entries |-> entries]
    ELSE [returned |-> f, invoked |-> TRUE,
          entries |-> MapPut(entries, path, [mtime |-> mtime, outline |-> f])]

(***************************************************************************)
(* SpecOutline: read_file and outline_context_for_match call               *)
(* get_or_compute with the mtime of the file and a closure that generates  *)
(* the outline from the content they read.                                 *)
(***************************************************************************)
OutlinePaths == {"p.rs", "q.rs"}
OutlineMtimes == {0, 1, 2}
Outlines == {"outline A", "outline B"}

InitOutline ==
    /\ BloomIdle
    /\ BloomCacheIdle
    /\ IndexIdle
    /\ EditIdle
    /\ ConcIdle
    /\ outlineEntries = EmptyMap
    /\ everStored = {}
    /\ ocLast = None
    /\ RankIdle
    /\ ToolsIdle

DoGetOrCompute ==
    \E path \in OutlinePaths, mtime \in OutlineMtimes, f \in Outlines :
        LET r == get_or_compute(outlineEntries, path, mtime, f)
        IN  /\ outlineEntries' = r.entries
            /\ everStored' = IF r.invoked THEN everStored \cup {<<path, mtime>>} ELSE everStored
            /\ ocLast' = Some([path |-> path, mtime |-> mtime, f |-> f,
                               returned |-> r.returned, invoked |-> r.invoked,
                               before |-> outlineEntries,
                               storedBefore |-> <<path, mtime>> \in everStored])
            /\ UNCHANGED <<bloomVars, bloomCacheVars, indexVars, editVars, concVars, rankVars, toolVars>>

NextOutline == DoGetOrCompute

SpecOutline == InitOutline /\ [][NextOutline]_vars

\* the entry of the last call's path before the call, if it had one
EntryBefore ==
    IF Unwrap(ocLast).path \in DOMAIN Unwrap(ocLast).before
    THEN Some(Unwrap(ocLast).before[Unwrap(ocLast).path])
    ELSE None

\* the last call invoked its closure, returned its result and overwrote the
\* entry of its path only
ComputedAndStored ==
    LET c == Unwrap(ocLast)
    IN  /\ c.invoked
        /\ c.returned = c.f
        /\ c.path \in DOMAIN outlineEntries
        /\ outlineEntries[c.path] = [mtime |-> c.mtime, outline |-> c.f]
        /\ \A p \in OutlinePaths \ {c.path} :
              /\ p \in DOMAIN outlineEntries <=> p \in DOMAIN c.before
              /\ p \in DOMAIN c.before => outlineEntries[p] = c.before[p]

(***************************************************************************)
(* C10 as stated.  Once a result has been stored for (p, m), any later     *)
(* get_or_compute(p, m, g) does not invoke g; and a call whose mtime       *)
(* differs from the entry's invokes its closure and overwrites the entry.  *)
(***************************************************************************)
C10_AnyLaterCallIsAHit ==
    IsSome(ocLast) =>
        /\ Unwrap(ocLast).storedBefore => ~Unwrap(ocLast).invoked
        /\ (IsSome(EntryBefore) /\ Unwrap(EntryBefore).mtime # Unwrap(ocLast).mtime)
              => ComputedAndStored

(***************************************************************************)
(* C10, amended.  While the entry of p still carries mtime m, that is, no  *)
(* call for p with another mtime came after the result was stored,         *)
(* get_or_compute(p, m, g) returns the stored string without invoking g    *)
(* and leaves the cache as it is; a call whose mtime differs from the      *)
(* entry's, or that finds no entry, invokes its closure, returns its       *)
(* result and overwrites the entry for p.                                  *)
(***************************************************************************)
C10_HitWhileEntryKeepsMtime ==
    IsSome(ocLast) =>
        IF IsSome(EntryBefore) /\ Unwrap(EntryBefore).mtime = Unwrap(ocLast).mtime
        THEN /\ ~Unwrap(ocLast).invoked
             /\ Unwrap(ocLast).returned = Unwrap(EntryBefore).outline
             /\ outlineEntries = Unwrap(ocLast).before
        ELSE ComputedAndStored

\* a hit that returned the stored outline although the closure would have
\* generated another one
C10_Witness ==
    /\ IsSome(ocLast)
    /\ IsSome(EntryBefore)
    /\ Unwrap(EntryBefore).mtime = Unwrap(ocLast).mtime
    /\ ~Unwrap(ocLast).invoked
    /\ Unwrap(ocLast).returned # Unwrap(ocLast).f
    /\ Cardinality(everStored) >= 3

(***************************************************************************)
(* SpecRank: rank::sort run on a list of matches, then run again on its    *)
(* own output or on the same input, while the wall clock advances.         *)
(* sort_by on a short slice is an insertion sort; every comparison scores  *)
(* both matches, and every score reads the clock.                          *)
(***************************************************************************)
MaxTicks == 1

Match(path, line, is_definition, def_weight, exact, mtime, file_lines) ==
    [path |-> path, line |-> line, is_definition |-> is_definition, def_weight |-> def_weight,
     exact |-> exact, mtime |-> mtime, file_lines |-> file_lines]

DirSrc == <<"s", "r", "c">>
DirVendor == <<"v", "e", "n", "d", "o", "r">>
FileA == <<"a", ".", "r", "s">>
FileB == <<"b", ".", "r", "s">>
FileC == <<"c", "_", "b", ".", "r", "s">>

\* the clock when the first sort starts; the matches' mtimes are relative to it
ClockStart == 3600

RankMatches ==
    {Match(<<DirSrc, FileA>>, 1, TRUE, 5, FALSE, 0, 100),
     Match(<<DirSrc, FileB>>, 3, TRUE, 4, FALSE, 1800, 100),
     Match(<<DirSrc, FileC>>, 2, TRUE, 4, FALSE, 1800, 100),
     Match(<<DirVendor, FileB>>, 7, FALSE, 0, TRUE, 0, 500)}

RankInputs ==
    {<<a, b>> : a \in RankMatches, b \in RankMatches}
        \cup {<<a, b, c>> : a \in RankMatches, b \in RankMatches, c \in RankMatches}

RankArgSets ==
    [query : {<<"z">>, <<"B">>},
     scope : {<< >>, <<DirSrc>>},
     context : {None, Some(<<DirSrc, FileA>>)},
     fs : {{<<DirSrc, <<"C","a","r","g","o",".","t","o","m","l">>>>}}]

InitRank ==
    /\ BloomIdle
    /\ BloomCacheIdle
    /\ IndexIdle
    /\ EditIdle
    /\ ConcIdle
    /\ OutlineIdle
    /\ ToolsIdle
    /\ clock = ClockStart
    /\ rankArgs \in {Some(a) : a \in RankArgSets}
    /\ rankInput \in {l \in RankInputs : \A i, j \in 1..Len(l) : i # j => l[i] # l[j]}
    /\ rankList = rankInput
    /\ rankPos = <<2, 2>>
    /\ rankScoreA = None
    /\ rankClocks = {}
    /\ rankDone = << >>
    /\ nTicks = 0

RankFrame == UNCHANGED <<bloomVars, bloomCacheVars, indexVars, editVars, concVars, outlineVars, toolVars>>

ScoreNow(m) ==
    score(m, Unwrap(rankArgs).query, Unwrap(rankArgs).scope, Unwrap(rankArgs).context,
          Unwrap(rankArgs).fs, clock)

Sorting == rankPos[1] <= Len(rankList)

\* the wall clock advances
ClockTick ==
    /\ nTicks < MaxTicks
    /\ Len(rankDone) < 2
    /\ clock' = clock + 1
    /\ nTicks' = nTicks + 1
    /\ UNCHANGED <<rankArgs, rankInput, rankList, rankPos, rankScoreA, rankClocks, rankDone>>
    /\ RankFrame

\* the comparator scores a, the element being inserted
RankScoreFirst ==
    /\ Sorting
    /\ rankScoreA = None
    /\ rankScoreA' = Some(ScoreNow(rankList[rankPos[2]]))
    /\ rankClocks' = rankClocks \cup {clock}
    /\ UNCHANGED <<clock, rankArgs, rankInput, rankList, rankPos, rankDone, nTicks>>
    /\ RankFrame

\* the element now at the end of the slice prefix: the next one to insert,
\* or the sort is over
NextInsert(list, i) ==
    /\ rankList' = list
    /\ rankPos' = <<i + 1, i + 1>>
    /\ rankDone' = IF i + 1 > Len(list) THEN Append(rankDone, list) ELSE rankDone

\* the comparator scores b, the element before it, and compares; the
\* insertion moves a one place down or stops
RankScoreSecondAndCompare ==
    /\ Sorting
    /\ IsSome(rankScoreA)
    /\ LET i == rankPos[1]
           j == rankPos[2]
           a == rankList[j]
           b == rankList[j - 1]
           swapped == [rankList EXCEPT ![j - 1] = a, ![j] = b]
       IN  IF RankLess(a, b, Unwrap(rankScoreA), ScoreNow(b))
           THEN IF j - 1 > 1
                THEN /\ rankList' = swapped
                     /\ rankPos' = <<i, j - 1>>
                     /\ UNCHANGED rankDone
                ELSE NextInsert(swapped, i)
           ELSE NextInsert(rankList, i)
    /\ rankScoreA' = None
    /\ rankClocks' = rankClocks \cup {clock}
    /\ UNCHANGED <<clock, rankArgs, rankInput, nTicks>>
    /\ RankFrame

\* sort again: the output of the first sort, or the same input once more
RankSortAgain ==
    /\ Len(rankDone) = 1
    /\ ~Sorting
    /\ \E input \in {rankDone[1], rankInput} :
          /\ rankInput' = input
          /\ rankList' = input
    /\ rankPos' = <<2, 2>>
    /\ rankClocks' = {}
    /\ UNCHANGED <<clock, rankArgs, rankScoreA, rankDone, nTicks>>
    /\ RankFrame

NextRank == ClockTick \/ RankScoreFirst \/ RankScoreSecondAndCompare \/ RankSortAgain

SpecRank == InitRank /\ [][NextRank]_vars

\* the list is in descending order of the scores at time now, ties by (path, line)
RankedAt(list, now) ==
    \A k \in 1..(Len(list) - 1) :
        LET a == list[k]
            b == list[k + 1]
            sa == score(a, Unwrap(rankArgs).query, Unwrap(rankArgs).scope,
                        Unwrap(rankArgs).context, Unwrap(rankArgs).fs, now)
            sb == score(b, Unwrap(rankArgs).query, Unwrap(rankArgs).scope,
                        Unwrap(rankArgs).context, Unwrap(rankArgs).fs, now)
        IN  \/ sa > sb
            \/ sa = sb /\ PathCmp(a.path, b.path) < 0
            \/ sa = sb /\ PathCmp(a.path, b.path) = 0 /\ a.line <= b.line

\* a sort has just returned
SortReturned == ~Sorting /\ rankDone # << >> /\ rankList = rankDone[Len(rankDone)]

(***************************************************************************)
(* C11.  After rank::sort the matches are in descending score order, ties  *)
(* by (path, line) ascending.  The scores are taken at a time the clock    *)
(* showed while the sort ran.                                              *)
(***************************************************************************)
C11_SortedByScore ==
    SortReturned => \E now \in rankClocks : RankedAt(rankList, now)

(***************************************************************************)
(* C12.  Sorting is idempotent and repeatable: a second sort, of the       *)
(* output of the first or of the same input, returns what the first        *)
(* returned, also when the clock advanced in between or meanwhile.         *)
(***************************************************************************)
C12_SortRepeatable ==
    Len(rankDone) = 2 => rankDone[2] = rankDone[1]

(***************************************************************************)
(* Faceting: search/facets.rs                                              *)
(***************************************************************************)
\* search::package_root: the walk starts at the path itself
SEARCH_MANIFESTS == RANK_MANIFESTS \cup {<<"s","e","t","u","p",".","p","y">>}

RECURSIVE package_root(_, _)
package_root(fs, dir) ==
    IF \E m \in SEARCH_MANIFESTS : Append(dir, m) \in fs THEN Some(dir)
    ELSE IF dir = << >> THEN None
    ELSE package_root(fs, SubSeq(dir, 1, Len(dir) - 1))

\* Path::to_string_lossy of a relative path: the components joined by "/"
RECURSIVE PathStr(_)
PathStr(p) ==
    IF p = << >> THEN << >>
    ELSE IF Len(p) = 1 THEN p[1]
    ELSE p[1] \o <<"/">> \o PathStr(Tail(p))

TEST_PATH_MARKERS == {<<"_","t","e","s","t",".">>,
                      <<"/","t","e","s","t","/">>,
                      <<"/","t","e","s","t","s","/">>,
                      <<"_","s","p","e","c",".">>,
                      <<"/","s","p","e","c","/">>}

TEST_TEXT_MARKERS == {<<"#","[","t","e","s","t","]">>,
                      <<"#","[","c","f","g","(","t","e","s","t",")","]">>,
                      <<"@","T","e","s","t">>,
                      <<"d","e","f"," ","t","e","s","t","_">>,
                      <<"i","t","(","\"">>,
                      <<"i","t","(","'">>,
                      <<"d","e","s","c","r","i","b","e","(","\"">>,
                      <<"d","e","s","c","r","i","b","e","(","'">>,
                      <<"f","u","n","c"," ","T","e","s","t">>}

is_test_match(m) ==
    \/ \E k \in TEST_PATH_MARKERS : StrContains(PathStr(m.path), k)
    \/ \E k \in TEST_TEXT_MARKERS : StrContains(m.text, k)

is_same_package(fs, path, primary_pkg) ==
    IF ~IsSome(primary_pkg) THEN FALSE
    ELSE LET parent == PathParent(path)
             root == IF IsSome(parent) THEN package_root(fs, Unwrap(parent)) ELSE None
         IN  IsSome(root) /\ Unwrap(root) = Unwrap(primary_pkg)

\* the package root of the first definition among the matches
primary_pkg(fs, matches) ==
    LET defs == {i \in 1..Len(matches) : matches[i].is_definition}
    IN  IF defs = {} THEN None
        ELSE LET first == CHOOSE i \in defs : \A j \in defs : i <= j
                 parent == PathParent(matches[first].path)
             IN  IF IsSome(parent) THEN package_root(fs, Unwrap(parent)) ELSE None

EmptyFacetedResult ==
    [definitions |-> << >>, implementations |-> << >>, tests |-> << >>,
     usages_local |-> << >>, usages_cross |-> << >>]

\* a loop body with the last branch missing: the match is pushed nowhere
FacetPushDropsCross(acc, m, fs, pkg) ==
    IF m.is_definition /\ IsSome(m.impl_target)
    THEN [acc EXCEPT !.implementations = Append(@, m)]
    ELSE IF m.is_definition THEN [acc EXCEPT !.definitions = Append(@, m)]
    ELSE IF is_test_match(m) THEN [acc EXCEPT !.tests = Append(@, m)]
    ELSE IF is_same_package(fs, m.path, pkg) THEN [acc EXCEPT !.usages_local = Append(@, m)]
    ELSE acc

\* a loop body that puts a usage at the front of its bucket
FacetPushUsageInFront(acc, m, fs, pkg) ==
    IF m.is_definition /\ IsSome(m.impl_target)
    THEN [acc EXCEPT !.implementations = Append(@, m)]
    ELSE IF m.is_definition THEN [acc EXCEPT !.definitions = Append(@, m)]
    ELSE IF is_test_match(m) THEN [acc EXCEPT !.tests = <<m>> \o @]
    ELSE IF is_same_package(fs, m.path, pkg) THEN [acc EXCEPT !.usages_local = <<m>> \o @]
    ELSE [acc EXCEPT !.usages_cross = <<m>> \o @]

\* the body of the loop of facet_matches
FacetPush(acc, m, fs, pkg) ==
    IF m.is_definition /\ IsSome(m.impl_target)
    THEN [acc EXCEPT !.implementations = Append(@, m)]
    ELSE IF m.is_definition THEN [acc EXCEPT !.definitions = Append(@, m)]
    ELSE IF is_test_match(m) THEN [acc EXCEPT !.tests = Append(@, m)]
    ELSE IF is_same_package(fs, m.path, pkg) THEN [acc EXCEPT !.usages_local = Append(@, m)]
    ELSE [acc EXCEPT !.usages_cross = Append(@, m)]

RECURSIVE FacetFrom(_, _, _, _, _)
FacetFrom(matches, i, acc, fs, pkg) ==
    IF i > Len(matches) THEN acc
    ELSE FacetFrom(matches, i + 1, FacetPush(acc, matches[i], fs, pkg), fs, pkg)

facet_matches(fs, matches) ==
    FacetFrom(matches, 1, EmptyFacetedResult, fs, primary_pkg(fs, matches))

(***************************************************************************)
(* SpecFacet: a search result gathers matches, then is faceted             *)
(***************************************************************************)
MaxFacetLen == 4

\* the fields of Match that facet_matches reads
FacetMatch(path, text, is_definition, impl_target) ==
    [path |-> path, text |-> text, is_definition |-> is_definition,
     impl_target |-> impl_target]

DirPkg == <<"p", "k", "g">>
DirOther == <<"o", "t", "h", "e", "r">>
DirTests == <<"t", "e", "s", "t", "s">>
DirLoose == <<"l", "o", "o", "s", "e">>
PlainText == <<"f", "(", ")">>
TestText == <<"#", "[", "t", "e", "s", "t", "]">>

\* pkg/ holds a Cargo.toml, other/ a setup.py, loose/ no manifest
FacetFs == {<<DirPkg, <<"C","a","r","g","o",".","t","o","m","l">>>>,
            <<DirOther, <<"s","e","t","u","p",".","p","y">>>>}

FacetMatches ==
    {FacetMatch(<<DirPkg, FileA>>, PlainText, TRUE, None),
     FacetMatch(<<DirPkg, FileB>>, PlainText, TRUE, Some("T")),
     FacetMatch(<<DirOther, FileA>>, PlainText, TRUE, None),
     FacetMatch(<<DirPkg, DirTests, FileC>>, PlainText, FALSE, None),
     FacetMatch(<<DirPkg, FileA>>, TestText, FALSE, None),
     FacetMatch(<<DirPkg, FileC>>, PlainText, FALSE, None),
     FacetMatch(<<DirOther, FileB>>, PlainText, FALSE, None),
     FacetMatch(<<DirLoose, FileB>>, PlainText, FALSE, None)}

InitFacet ==
    /\ BloomIdle
    /\ BloomCacheIdle
    /\ IndexIdle
    /\ EditIdle
    /\ ConcIdle
    /\ OutlineIdle
    /\ RankIdle
    /\ PureIdle
    /\ RestIdle
    /\ ExpandIdle
    /\ McpIdle
    /\ ReadIdle
    /\ facetInput = << >>
    /\ facetResult = None

FacetFrame == UNCHANGED <<bloomVars, bloomCacheVars, indexVars, editVars, concVars,
                          outlineVars, rankVars, expandVars, mcpVars, readVars, pureVars, restVars>>

\* the search adds one more match to its result
FacetAppend ==
    /\ facetResult = None
    /\ Len(facetInput) < MaxFacetLen
    /\ \E m \in FacetMatches : facetInput' = Append(facetInput, m)
    /\ UNCHANGED facetResult
    /\ FacetFrame

DoFacetMatches ==
    /\ facetResult = None
    /\ facetResult' = Some(facet_matches(FacetFs, facetInput))
    /\ UNCHANGED facetInput
    /\ FacetFrame

NextFacet == FacetAppend \/ DoFacetMatches

SpecFacet == InitFacet /\ [][NextFacet]_vars

FacetBuckets(r) ==
    <<r.definitions, r.implementations, r.tests, r.usages_local, r.usages_cross>>

CountIn(m, list) == Cardinality({i \in 1..Len(list) : list[i] = m})

SeqAll(list, P(_)) == \A i \in 1..Len(list) : P(list[i])

(***************************************************************************)
(* C13: facet_matches is a partition of its input into the five buckets:   *)
(* every match is in exactly one bucket, the one whose condition it meets  *)
(* (implementations: definition with impl_target; definitions: other       *)
(* definitions; tests: non-definitions with a test path or test text;      *)
(* usages_local: the remaining usages in the package root of the first     *)
(* definition; usages_cross: all others), and the bucket sizes sum to the  *)
(* number of input matches.                                                *)
(***************************************************************************)
C13_FacetsPartition ==
    IsSome(facetResult) =>
        LET r == Unwrap(facetResult)
            b == FacetBuckets(r)
            pkg == primary_pkg(FacetFs, facetInput)
            local(m) == is_same_package(FacetFs, m.path, pkg)
        IN  /\ Len(b[1]) + Len(b[2]) + Len(b[3]) + Len(b[4]) + Len(b[5]) = Len(facetInput)
            /\ \A m \in FacetMatches :
                   CountIn(m, b[1]) + CountIn(m, b[2]) + CountIn(m, b[3])
                       + CountIn(m, b[4]) + CountIn(m, b[5]) = CountIn(m, facetInput)
            /\ \A m \in FacetMatches :
                   Cardinality({k \in 1..5 : CountIn(m, b[k]) > 0}) <= 1
            /\ SeqAll(r.implementations, LAMBDA m : m.is_definition /\ IsSome(m.impl_target))
            /\ SeqAll(r.definitions, LAMBDA m : m.is_definition /\ ~IsSome(m.impl_target))
            /\ SeqAll(r.tests, LAMBDA m : ~m.is_definition /\ is_test_match(m))
            /\ SeqAll(r.usages_local,
                      LAMBDA m : ~m.is_definition /\ ~is_test_match(m) /\ local(m))
            /\ SeqAll(r.usages_cross,
                      LAMBDA m : ~m.is_definition /\ ~is_test_match(m) /\ ~local(m))

\* a faceted result with an implementation, a test, a local and a foreign usage
C13_Witness ==
    /\ IsSome(facetResult)
    /\ Unwrap(facetResult).implementations # << >>
    /\ Unwrap(facetResult).tests # << >>
    /\ Unwrap(facetResult).usages_local # << >>
    /\ Unwrap(facetResult).usages_cross # << >>

\* the matches of the input that are in a bucket, in the order of the input
InputOrderOf(bucket) ==
    SelectSeq(facetInput, LAMBDA m : \E i \in 1..Len(bucket) : bucket[i] = m)

(***************************************************************************)
(* C29: faceting preserves the rank order: within each of the five buckets *)
(* the matches appear in the same relative order as in the ranked list     *)
(* that was faceted.                                                       *)
(***************************************************************************)
C29_FacetsKeepRankOrder ==
    IsSome(facetResult) =>
        \A k \in 1..5 :
            FacetBuckets(Unwrap(facetResult))[k]
                = InputOrderOf(FacetBuckets(Unwrap(facetResult))[k])

\* a bucket of two different usages, with a match of another bucket between
\* them in the input
C29_Witness ==
    /\ IsSome(facetResult)
    /\ Len(facetInput) = 3
    /\ Len(Unwrap(facetResult).usages_cross) = 2
    /\ Unwrap(facetResult).usages_cross = <<facetInput[1], facetInput[3]>>
    /\ facetInput[1] # facetInput[3]

(***************************************************************************)
(* Match expansion: search/mod.rs format_matches and format_search_result  *)
(***************************************************************************)
\* the matches are listed linearly up to this many, faceted above
FACET_THRESHOLD == 5

\* Session::is_expanded
is_expanded(session, path, line) == <<path, line>> \in session

\* Session::record_expand
record_expand(session, path, line) == session \cup {<<path, line>>}

\* the state format_matches carries from match to match and from call to call;
\* expanded and shown_earlier hold display positions
FormatState(session, expand) ==
    [session |-> session, expand_remaining |-> expand, expanded_files |-> {},
     expanded |-> << >>, shown_earlier |-> {}, shown |-> 0]

multi_file(matches) ==
    matches # << >> /\ \E i \in 1..Len(matches) : matches[i].path # matches[1].path

\* a budget that is not spent: expand_remaining is never decremented
FormatMatchKeepsBudget(st, m, multi, readable) ==
    LET pos == st.shown + 1
        seen == [st EXCEPT !.shown = pos]
        has_range == m.is_definition /\ IsSome(m.def_range)
    IN  IF st.expand_remaining = 0 THEN seen
        ELSE IF has_range /\ is_expanded(st.session, m.path, m.line)
             THEN [seen EXCEPT !.shown_earlier = @ \cup {pos}]
        ELSE IF multi /\ m.path \in st.expanded_files THEN seen
        ELSE IF m.path \notin readable THEN seen
        ELSE [seen EXCEPT
                 !.session = IF has_range THEN record_expand(@, m.path, m.line) ELSE @,
                 !.expanded_files = @ \cup {m.path},
                 !.expanded = Append(@, pos)]

\* the session is not asked: a recorded definition is expanded again
FormatMatchNoSessionDedup(st, m, multi, readable) ==
    LET pos == st.shown + 1
        seen == [st EXCEPT !.shown = pos]
        has_range == m.is_definition /\ IsSome(m.def_range)
    IN  IF st.expand_remaining = 0 THEN seen
        ELSE IF multi /\ m.path \in st.expanded_files THEN seen
        ELSE IF m.path \notin readable THEN seen
        ELSE [seen EXCEPT
                 !.session = IF has_range THEN record_expand(@, m.path, m.line) ELSE @,
                 !.expand_remaining = @ - 1,
                 !.expanded_files = @ \cup {m.path},
                 !.expanded = Append(@, pos)]

\* the body of the loop of format_matches for one match; readable is the set
\* of paths expand_match can read
FormatMatch(st, m, multi, readable) ==
    LET pos == st.shown + 1
        seen == [st EXCEPT !.shown = pos]
        has_range == m.is_definition /\ IsSome(m.def_range)
    IN  IF st.expand_remaining = 0 THEN seen
        ELSE IF has_range /\ is_expanded(st.session, m.path, m.line)
             THEN [seen EXCEPT !.shown_earlier = @ \cup {pos}]
        ELSE IF multi /\ m.path \in st.expanded_files THEN seen
        ELSE IF m.path \notin readable THEN seen
        ELSE [seen EXCEPT
                 !.session = IF has_range THEN record_expand(@, m.path, m.line) ELSE @,
                 !.expand_remaining = @ - 1,
                 !.expanded_files = @ \cup {m.path},
                 !.expanded = Append(@, pos)]

RECURSIVE FormatFrom(_, _, _, _, _)
FormatFrom(st, matches, i, multi, readable) ==
    IF i > Len(matches) THEN st
    ELSE FormatFrom(FormatMatch(st, matches[i], multi, readable), matches, i + 1,
                    multi, readable)

format_matches(st, matches, readable) ==
    FormatFrom(st, matches, 1, multi_file(matches), readable)

\* the matches in the order format_search_result lists them
DisplayOrder(fs, matches) ==
    IF Len(matches) > FACET_THRESHOLD
    THEN LET f == facet_matches(fs, matches)
         IN  f.definitions \o f.implementations \o f.tests \o f.usages_local
                 \o f.usages_cross
    ELSE matches

\* format_search_result with a session: facets in order above the threshold,
\* else one list; an empty facet is skipped, which formats nothing
format_search_result(fs, matches, session, expand, readable) ==
    LET st0 == FormatState(session, expand)
    IN  IF Len(matches) > FACET_THRESHOLD
        THEN LET f == facet_matches(fs, matches)
                 s1 == format_matches(st0, f.definitions, readable)
                 s2 == format_matches(s1, f.implementations, readable)
                 s3 == format_matches(s2, f.tests, readable)
                 s4 == format_matches(s3, f.usages_local, readable)
             IN  format_matches(s4, f.usages_cross, readable)
        ELSE format_matches(st0, matches, readable)

(***************************************************************************)
(* SpecExpand: searches with expansion in one session                      *)
(***************************************************************************)
MaxSearches == 2
MaxExpand == 2

ExpandMatch(path, line, is_definition, def_range) ==
    [path |-> path, line |-> line, text |-> PlainText, is_definition |-> is_definition,
     def_range |-> def_range, impl_target |-> None]

ExD1 == ExpandMatch(<<DirPkg, FileA>>, 1, TRUE, Some(<<1, 4>>))
ExD2 == ExpandMatch(<<DirPkg, FileA>>, 9, TRUE, Some(<<9, 12>>))
\* a content hit on the line where ExD1 is declared
ExU1 == ExpandMatch(<<DirPkg, FileA>>, 1, FALSE, None)
ExU2 == ExpandMatch(<<DirPkg, FileB>>, 3, FALSE, None)
ExU3 == ExpandMatch(<<DirOther, FileB>>, 4, FALSE, None)
ExU4 == ExpandMatch(<<DirLoose, FileB>>, 7, FALSE, None)
ExU5 == ExpandMatch(<<DirPkg, FileB>>, 8, FALSE, None)
ExU6 == ExpandMatch(<<DirOther, FileB>>, 9, FALSE, None)

ExpandPool == {ExD1, ExD2, ExU1, ExU2, ExU3, ExU4}

\* loose/b.rs was removed after the search found it
ExpandReadable == {<<DirPkg, FileA>>, <<DirPkg, FileB>>, <<DirOther, FileB>>}

DistinctLocations(l) ==
    \A i, j \in 1..Len(l) : i # j => <<l[i].path, l[i].line>> # <<l[j].path, l[j].line>>

\* results of up to three matches, and three of six, which are faceted
ExpandResults ==
    {l \in UNION {[1..n -> ExpandPool] : n \in 1..3} : DistinctLocations(l)}
        \cup {<<ExD1, ExD2, ExU2, ExU5, ExU3, ExU6>>,
              <<ExU2, ExD1, ExU5, ExU3, ExU6, ExU4>>,
              <<ExU1, ExU2, ExU5, ExU3, ExU6, ExU4>>}

InitExpand ==
    /\ BloomIdle
    /\ BloomCacheIdle
    /\ IndexIdle
    /\ EditIdle
    /\ ConcIdle
    /\ OutlineIdle
    /\ RankIdle
    /\ PureIdle
    /\ RestIdle
    /\ FacetIdle
    /\ McpIdle
    /\ ReadIdle
    /\ expansions = {}
    /\ exLast = None
    /\ nSearches = 0

ExpandFrame == UNCHANGED <<bloomVars, bloomCacheVars, indexVars, editVars, concVars,
                           outlineVars, rankVars, facetVars, mcpVars, readVars, pureVars, restVars>>

\* tilth_search with kind symbol or content: search_*_expanded
DoSearchExpanded ==
    /\ nSearches < MaxSearches
    /\ \E matches \in ExpandResults, expand \in 0..MaxExpand :
           LET st == format_search_result(FacetFs, matches, expansions, expand,
                                          ExpandReadable)
           IN  /\ expansions' = st.session
               /\ exLast' = Some([matches |-> matches, expand |-> expand,
                                  display |-> DisplayOrder(FacetFs, matches),
                                  expanded |-> st.expanded,
                                  shown_earlier |-> st.shown_earlier,
                                  before |-> expansions])
    /\ nSearches' = nSearches + 1
    /\ ExpandFrame

\* tilth_session with action reset
DoSessionReset ==
    /\ expansions # {}
    /\ expansions' = {}
    /\ UNCHANGED <<exLast, nSearches>>
    /\ ExpandFrame

NextExpand == DoSearchExpanded \/ DoSessionReset

SpecExpand == InitExpand /\ [][NextExpand]_vars

\* the matches of the last response that got inlined source, as display positions
ExpandedPositions == {Unwrap(exLast).expanded[i] : i \in 1..Len(Unwrap(exLast).expanded)}

MatchAt(pos) == Unwrap(exLast).display[pos]

SpansFiles == \E i, j \in 1..Len(Unwrap(exLast).matches) :
                  Unwrap(exLast).matches[i].path # Unwrap(exLast).matches[j].path

Faceted == Len(Unwrap(exLast).matches) > FACET_THRESHOLD

OnePerFile ==
    \A p, q \in ExpandedPositions : p # q => MatchAt(p).path # MatchAt(q).path

(***************************************************************************)
(* C14: within one search response whose matches span more than one file,  *)
(* no two expanded matches are in the same file, whether the matches are   *)
(* listed linearly or in facets.                                           *)
(***************************************************************************)
C14_OneExpansionPerFile ==
    (IsSome(exLast) /\ SpansFiles) => OnePerFile

(***************************************************************************)
(* C15 as stated: no match expanded in a response is at a (path, line)     *)
(* the session had recorded before, be it a definition or a usage.         *)
(***************************************************************************)
C15_NoRecordedLocationExpanded ==
    IsSome(exLast) =>
        \A p \in ExpandedPositions :
            ~is_expanded(Unwrap(exLast).before, MatchAt(p).path, MatchAt(p).line)

(***************************************************************************)
(* C15, amended: a definition with a def_range at a (path, line) the       *)
(* session has recorded is not expanded again in a later response; a       *)
(* usage or a definition without range at that location still is.          *)
(***************************************************************************)
C15_RecordedDefinitionNotExpanded ==
    IsSome(exLast) =>
        \A p \in ExpandedPositions :
            (MatchAt(p).is_definition /\ IsSome(MatchAt(p).def_range))
                => ~is_expanded(Unwrap(exLast).before, MatchAt(p).path, MatchAt(p).line)

\* a response that met a definition the session had recorded and showed it
\* as seen earlier, while another match of the response was expanded
C15_Witness ==
    /\ IsSome(exLast)
    /\ \E p \in Unwrap(exLast).shown_earlier :
           is_expanded(Unwrap(exLast).before, MatchAt(p).path, MatchAt(p).line)
    /\ ExpandedPositions # {}

PassedOver(p) ==
    \/ p \in Unwrap(exLast).shown_earlier
    \/ MatchAt(p).path \notin ExpandReadable
    \/ \E q \in ExpandedPositions : q < p /\ MatchAt(q).path = MatchAt(p).path

PARSE_ERROR == -32700
METHOD_NOT_FOUND == -32601
INVALID_PARAMS == -32602

NoArgs == [path |-> None, query |-> None, kind |-> None, pattern |-> None, edits |-> None]

Line(kind, jsonrpc, id, method, name, args) ==
    [kind |-> kind, jsonrpc |-> jsonrpc, id |-> id, method |-> method, name |-> name,
     args |-> args]

\* serde_json::from_str::<JsonRpcRequest>: jsonrpc and method are required
\* strings, id is an Option (absent and null both give None), params defaults
parse_request(line) ==
    IF line.kind # "object" \/ ~line.jsonrpc \/ line.method = "absent" THEN None
    ELSE Some([id |-> IF line.id \in {"absent", "null"} THEN None ELSE Some(line.id),
               method |-> line.method, name |-> line.name, args |-> line.args])

Response(id, result, error) == [id |-> id, result |-> result, error |-> error]

JsonRpcError(code, message) == Some([code |-> code, message |-> message])

\* the result member of a response; tools is the list of tools/list
Result(kind, text, isError, tools) ==
    Some([kind |-> kind, text |-> text, isError |-> isError, tools |-> tools])

write_error(id, code, msg) == Response(id, None, JsonRpcError(code, msg))

tool_definitions(mode) ==
    {"tilth_read", "tilth_search", "tilth_map", "tilth_files", "tilth_session"}
        \cup (IF mode THEN {"tilth_edit"} ELSE {})

Ok(text) == [ok |-> TRUE, text |-> text]
Err(text) == [ok |-> FALSE, text |-> text]

\* the files read_file finds
McpExisting == {"f"}

tool_read(args) ==
    IF ~IsSome(args.path) THEN Err("missing required parameter: path")
    ELSE IF Unwrap(args.path) \notin McpExisting THEN Err("not found")
    ELSE Ok("file")

SEARCH_KINDS == {"symbol", "content", "regex"}

tool_search(args) ==
    IF ~IsSome(args.query) THEN Err("missing required parameter: query")
    ELSE IF IsSome(args.kind) /\ Unwrap(args.kind) \notin SEARCH_KINDS
         THEN Err("unknown search kind")
    ELSE IF Unwrap(args.query) = "/(/" THEN Err("invalid query")
    ELSE Ok("matches")

tool_files(args) ==
    IF ~IsSome(args.pattern) THEN Err("missing required parameter: pattern")
    ELSE Ok("files")

tool_map(args) == Ok("map")

tool_session(args) == Ok("session")

\* the hashes of the lines of f
McpHash == [t \in LineTexts |-> IF t = LineA THEN 1 ELSE 2]

\* the outcome of a tool: its Result, the file afterwards, whether the edit
\* engine was entered
Outcome(result, file, edited) == [result |-> result, file |-> file, edited |-> edited]

\* the Result of tool_edit: Applied is Ok, everything else an Err
EditOutcome(r) ==
    Outcome(IF r.response.isError THEN Err(r.response.kind) ELSE Ok("applied"),
            r.lines, TRUE)

McpToolEdit(args, file) == EditOutcome(tool_edit(args, McpHash, file, 0))

\* a dispatcher whose tilth_edit arm has no guard
dispatch_tool_edit_ungated(tool, args, file, mode) ==
    IF tool = "tilth_read" THEN Outcome(tool_read(args), file, FALSE)
    ELSE IF tool = "tilth_search" THEN Outcome(tool_search(args), file, FALSE)
    ELSE IF tool = "tilth_files" THEN Outcome(tool_files(args), file, FALSE)
    ELSE IF tool = "tilth_map" THEN Outcome(tool_map(args), file, FALSE)
    ELSE IF tool = "tilth_session" THEN Outcome(tool_session(args), file, FALSE)
    ELSE IF tool = "tilth_edit" THEN McpToolEdit(args, file)
    ELSE Outcome(Err("unknown tool"), file, FALSE)

dispatch_tool(tool, args, file, mode) ==
    IF tool = "tilth_read" THEN Outcome(tool_read(args), file, FALSE)
    ELSE IF tool = "tilth_search" THEN Outcome(tool_search(args), file, FALSE)
    ELSE IF tool = "tilth_files" THEN Outcome(tool_files(args), file, FALSE)
    ELSE IF tool = "tilth_map" THEN Outcome(tool_map(args), file, FALSE)
    ELSE IF tool = "tilth_session" THEN Outcome(tool_session(args), file, FALSE)
    ELSE IF tool = "tilth_edit" /\ mode THEN McpToolEdit(args, file)
    ELSE Outcome(Err("unknown tool"), file, FALSE)

\* a tool failure turned into a JSON-RPC error object
ToolResponseErrAsRpcError(id, result) ==
    IF result.ok THEN Response(id, Result("content", result.text, FALSE, {}), None)
    ELSE Response(id, None, JsonRpcError(INVALID_PARAMS, result.text))

\* the two arms of the match in handle_tool_call
ToolResponse(id, result) ==
    IF result.ok THEN Response(id, Result("content", result.text, FALSE, {}), None)
    ELSE Response(id, Result("content", result.text, TRUE, {}), None)

\* handle_tool_call: the response, the file afterwards, the tool outcome
Handled(id, o) ==
    [response |-> ToolResponse(id, o.result), file |-> o.file,
     edited |-> o.edited, tool |-> IF o.result.ok THEN "ok" ELSE "err"]

handle_tool_call(req, file, mode) ==
    Handled(req.id, dispatch_tool(IF req.name = "absent" THEN "" ELSE req.name,
                                  req.args, file, mode))

\* a method that runs no tool
Plain(r, file) == [response |-> r, file |-> file, edited |-> FALSE, tool |-> "none"]

handle_request(req, file, mode) ==
    IF req.method = "initialize"
    THEN Plain(Response(req.id, Result("initialize", "", FALSE, {}), None), file)
    ELSE IF req.method = "tools/list"
    THEN Plain(Response(req.id, Result("tools", "", FALSE, tool_definitions(mode)), None),
               file)
    ELSE IF req.method = "tools/call" THEN handle_tool_call(req, file, mode)
    ELSE IF req.method = "ping"
    THEN Plain(Response(req.id, Result("empty", "", FALSE, {}), None), file)
    ELSE Plain(Response(req.id, None, JsonRpcError(METHOD_NOT_FOUND, "method not found")),
               file)

SomeResponse(h) == [h EXCEPT !.response = Some(@)]

\* a loop that answers notifications as well
IsNotificationNever(req) == FALSE

\* run: req.id.is_none()
IsNotification(req) == ~IsSome(req.id)

(***************************************************************************)
(* SpecMcp: run reads stdin line by line                                   *)
(***************************************************************************)
MaxLines == 2

EmptyLine == Line("empty", FALSE, "absent", "absent", "absent", NoArgs)
GarbageLine == Line("garbage", FALSE, "absent", "absent", "absent", NoArgs)

Request(id, method) == Line("object", TRUE, id, method, "absent", NoArgs)

ToolCall(id, name, args) == Line("object", TRUE, id, "tools/call", name, args)

EditBatchArgs(anchor) ==
    [NoArgs EXCEPT !.path = Some("f"),
                   !.edits = Some(<<Entry(Some(anchor), None, Some(<<"b">>))>>)]

McpLines ==
    {EmptyLine, GarbageLine,
     Line("object", FALSE, "1", "ping", "absent", NoArgs),
     Line("object", TRUE, "1", "absent", "absent", NoArgs)}
      \cup {Request(id, "ping") : id \in {"absent", "null", "1", "2"}}
      \cup {Request(id, m) : id \in {"absent", "1"},
                             m \in {"initialize", "tools/list", "bogus"}}
      \cup {ToolCall("1", "tilth_read", a) :
                a \in {NoArgs, [NoArgs EXCEPT !.path = Some("f")],
                       [NoArgs EXCEPT !.path = Some("g")]}}
      \cup {ToolCall("1", "tilth_search", a) :
                a \in {NoArgs, [NoArgs EXCEPT !.query = Some("foo")],
                       [NoArgs EXCEPT !.query = Some("foo"), !.kind = Some("fuzzy")],
                       [NoArgs EXCEPT !.query = Some("/(/"), !.kind = Some("regex")]}}
      \cup {ToolCall("1", "tilth_files", a) :
                a \in {NoArgs, [NoArgs EXCEPT !.pattern = Some("*.rs")]}}
      \cup {ToolCall("1", n, NoArgs) : n \in {"tilth_map", "tilth_session", "bogus", "absent"}}
      \cup {ToolCall(id, "tilth_edit", a) :
                id \in {"absent", "2"},
                a \in {EditBatchArgs(<<"1", ":", "0", "0", "1">>),
                       EditBatchArgs(<<"1", ":", "0", "0", "2">>),
                       [NoArgs EXCEPT !.path = Some("f")]}}

McpFileAtStart == <<LineA, LineB>>

InitMcp ==
    /\ BloomIdle
    /\ BloomCacheIdle
    /\ IndexIdle
    /\ EditIdle
    /\ ConcIdle
    /\ OutlineIdle
    /\ RankIdle
    /\ PureIdle
    /\ RestIdle
    /\ FacetIdle
    /\ ExpandIdle
    /\ ReadIdle
    /\ edit_mode \in BOOLEAN
    /\ mcpTrace = << >>
    /\ mcpPending = None
    /\ stdout = << >>
    /\ mcpFile = McpFileAtStart
    /\ mcpEditCalls = 0

McpFrame == UNCHANGED <<bloomVars, bloomCacheVars, indexVars, editVars, concVars,
                        outlineVars, rankVars, facetVars, expandVars, readVars, pureVars, restVars>>

Traced(line, tool) == [line |-> line, tool |-> tool]

\* what one line does: nothing, a parse error, nothing for a notification,
\* else the response of handle_request
LoopBody(line, file, mode) ==
    IF line.kind = "empty" THEN Plain(None, file)
    ELSE IF ~IsSome(parse_request(line))
    THEN Plain(Some(write_error(None, PARSE_ERROR, "parse error")), file)
    ELSE IF IsNotification(Unwrap(parse_request(line))) THEN Plain(None, file)
    ELSE SomeResponse(handle_request(Unwrap(parse_request(line)), file, mode))

McpStep(line, h) ==
    /\ mcpTrace' = Append(mcpTrace, Traced(line, h.tool))
    /\ mcpPending' = h.response
    /\ mcpFile' = h.file
    /\ mcpEditCalls' = mcpEditCalls + (IF h.edited THEN 1 ELSE 0)

\* the body of the loop of run up to the point where a response is due
McpReadLine ==
    /\ mcpPending = None
    /\ Len(mcpTrace) < MaxLines
    /\ \E line \in McpLines : McpStep(line, LoopBody(line, mcpFile, edit_mode))
    /\ UNCHANGED <<edit_mode, stdout>>
    /\ McpFrame

\* the response is serialized, written and flushed
McpWriteResponse ==
    /\ IsSome(mcpPending)
    /\ stdout' = Append(stdout, Unwrap(mcpPending))
    /\ mcpPending' = None
    /\ UNCHANGED <<edit_mode, mcpTrace, mcpFile, mcpEditCalls>>
    /\ McpFrame

NextMcp == McpReadLine \/ McpWriteResponse

SpecMcp == InitMcp /\ [][NextMcp]_vars

\* the line is no request: no JSON object, or one without jsonrpc or method
LineFails(line) ==
    line.kind = "garbage" \/ (line.kind = "object" /\ (~line.jsonrpc \/ line.method = "absent"))

\* the line is a request that carries an id
LineHasId(line) ==
    line.kind = "object" /\ line.jsonrpc /\ line.method # "absent"
        /\ line.id \notin {"absent", "null"}

Due(line) == LineFails(line) \/ LineHasId(line)

\* the lines read so far that are owed a response, in order
DueTrace == SelectSeq(mcpTrace, LAMBDA t : Due(t.line))

\* the responses built so far, in order; the last may not be written yet
Built == IF IsSome(mcpPending) THEN Append(stdout, Unwrap(mcpPending)) ELSE stdout

IsParseError(r) ==
    r.id = None /\ r.result = None /\ IsSome(r.error) /\ Unwrap(r.error).code = PARSE_ERROR

(***************************************************************************)
(* C17: run writes exactly one response line for every line that parses    *)
(* as a request carrying an id, with that id, and before it reads the next *)
(* line; it writes nothing for a notification or an empty line; a line     *)
(* that does not parse gets one -32700 error response and the loop goes on.*)
(***************************************************************************)
C17_OneResponsePerRequest ==
    /\ Len(Built) = Len(DueTrace)
    /\ \A k \in 1..Len(DueTrace) :
           IF LineFails(DueTrace[k].line) THEN IsParseError(Built[k])
           ELSE Built[k].id = Some(DueTrace[k].line.id)
    /\ IsSome(mcpPending) => Due(mcpTrace[Len(mcpTrace)].line)

\* a line that does not parse, answered, and then a request answered with its id
C17_Witness ==
    /\ Len(mcpTrace) = 2
    /\ LineFails(mcpTrace[1].line)
    /\ LineHasId(mcpTrace[2].line)
    /\ Len(stdout) = 2
    /\ stdout[2].id = Some(mcpTrace[2].line.id)

KNOWN_METHODS == {"initialize", "tools/list", "tools/call", "ping"}

IsToolCall(line) == LineHasId(line) /\ line.method = "tools/call"

\* the calls that fail whatever the file holds: unknown tool, missing
\* parameter, unknown search kind, invalid query, missing file
FailingCalls ==
    {l \in McpLines :
        /\ IsToolCall(l)
        /\ \/ l.name \in {"bogus", "absent"}
           \/ l.name = "tilth_read" /\ l.args.path \in {None, Some("g")}
           \/ l.name = "tilth_search" /\ (l.args.query = None \/ l.args.kind = Some("fuzzy")
                                          \/ l.args.kind = Some("regex"))
           \/ l.name = "tilth_files" /\ l.args.pattern = None
           \/ l.name = "tilth_edit" /\ l.args.edits = None}

IsErrorResult(r) == r.error = None /\ IsSome(r.result) /\ Unwrap(r.result).isError

(***************************************************************************)
(* C18: a failure inside a tools/call request comes back as a result with  *)
(* isError true and the message as text, never as a JSON-RPC error object; *)
(* error objects are built only for lines that do not parse (-32700) and   *)
(* for unknown methods (-32601).                                           *)
(***************************************************************************)
C18_ToolFailuresAreResults ==
    \A k \in 1..Len(Built) :
        LET line == DueTrace[k].line
            r == Built[k]
        IN  /\ IsToolCall(line) =>
                   /\ r.error = None
                   /\ IsSome(r.result)
                   /\ Unwrap(r.result).isError = (DueTrace[k].tool = "err")
            /\ line \in FailingCalls => IsErrorResult(r)
            /\ IsSome(r.error) =>
                   \/ LineFails(line) /\ Unwrap(r.error).code = PARSE_ERROR
                   \/ /\ LineHasId(line)
                      /\ line.method \notin KNOWN_METHODS
                      /\ Unwrap(r.error).code = METHOD_NOT_FOUND

\* an edit with a stale anchor and a call of an unknown tool, both answered
\* with an error result
C18_Witness ==
    /\ edit_mode
    /\ Len(stdout) = 2
    /\ mcpTrace[1].line.name = "tilth_edit"
    /\ IsErrorResult(stdout[1])
    /\ Unwrap(stdout[1].result).text = "HashMismatch"
    /\ mcpTrace[2].line.name = "bogus"
    /\ IsErrorResult(stdout[2])

(***************************************************************************)
(* C19: with edit_mode false, tools/list does not list tilth_edit, no      *)
(* request enters the edit engine or writes a file, and a tools/call       *)
(* naming tilth_edit gets the unknown tool error result.                   *)
(***************************************************************************)
C19_EditOnlyInEditMode ==
    ~edit_mode =>
        /\ mcpEditCalls = 0
        /\ mcpFile = McpFileAtStart
        /\ \A k \in 1..Len(Built) :
               LET line == DueTrace[k].line
                   r == Built[k]
               IN  /\ (LineHasId(line) /\ line.method = "tools/list") =>
                          "tilth_edit" \notin Unwrap(r.result).tools
                   /\ (IsToolCall(line) /\ line.name = "tilth_edit") =>
                          IsErrorResult(r) /\ Unwrap(r.result).text = "unknown tool"

\* without edit mode: a tools/list answered, then a tilth_edit call whose
\* anchor matches the file answered with unknown tool
C19_Witness ==
    /\ ~edit_mode
    /\ Len(stdout) = 2
    /\ mcpTrace[1].line.method = "tools/list"
    /\ mcpTrace[2].line = ToolCall("2", "tilth_edit", EditBatchArgs(<<"1", ":", "0", "0", "1">>))
    /\ Unwrap(stdout[2].result).text = "unknown tool"

(***************************************************************************)
(* The read pipeline: read/mod.rs read_file                                *)
(*                                                                         *)
(* A file is described by what the pipeline looks at: the outcome of       *)
(* fs::metadata, its length, whether it can be opened, whether its first   *)
(* 8 KB hold a NUL byte and the percentage of non-printable bytes in       *)
(* them, whether its name or its first 2 KB mark it as generated, whether  *)
(* its bytes are valid UTF-8, and whether its type is structured data.     *)
(***************************************************************************)
TOKEN_THRESHOLD == 1500
BINARY_PERCENT == 30

estimate_tokens(byte_len) == byte_len \div 4

is_binary(file) == file.nul \/ file.nonprintable > BINARY_PERCENT

is_generated(file) == file.gen_name \/ file.gen_marker

\* the body of a view: the text of the whole file as from_utf8_lossy decodes
\* it, where every invalid sequence becomes U+FFFD
from_utf8_lossy(file) == [kind |-> "content", replaced |-> ~file.valid_utf8]

NoBody == [kind |-> "none", replaced |-> FALSE]
OutlineBody == [kind |-> "outline", replaced |-> FALSE]
SectionBody == [kind |-> "section", replaced |-> FALSE]
ListingBody == [kind |-> "listing", replaced |-> FALSE]

View(mode, header, body, cache) ==
    [ok |-> TRUE, mode |-> mode, header |-> header, body |-> body, cache |-> cache]

ReadError(kind, cache) ==
    [ok |-> FALSE, mode |-> kind, header |-> FALSE, body |-> NoBody, cache |-> cache]

\* a pipeline that honours full before it looks at the bytes
ViewOfBytesFullFirst(path, file, full, cache) ==
    IF full \/ estimate_tokens(file.byte_len) <= TOKEN_THRESHOLD
    THEN View("full", TRUE, from_utf8_lossy(file), cache)
    ELSE IF is_binary(file) THEN View("binary", TRUE, NoBody, cache)
    ELSE IF is_generated(file) THEN View("generated", TRUE, NoBody, cache)
    ELSE View(IF file.structured THEN "keys" ELSE "outline", TRUE, OutlineBody,
              get_or_compute(cache, path, file.mtime, "outline").entries)

\* read_file from the binary check on
ViewOfBytes(path, file, full, cache) ==
    IF is_binary(file) THEN View("binary", TRUE, NoBody, cache)
    ELSE IF is_generated(file) THEN View("generated", TRUE, NoBody, cache)
    ELSE IF full \/ estimate_tokens(file.byte_len) <= TOKEN_THRESHOLD
    THEN View("full", TRUE, from_utf8_lossy(file), cache)
    ELSE View(IF file.structured THEN "keys" ELSE "outline", TRUE, OutlineBody,
              get_or_compute(cache, path, file.mtime, "outline").entries)

read_file(path, file, section, full, cache) ==
    IF file.meta = "missing" THEN ReadError("NotFound", cache)
    ELSE IF file.meta = "denied" THEN ReadError("PermissionDenied", cache)
    ELSE IF file.meta = "dir" THEN View("listing", FALSE, ListingBody, cache)
    ELSE IF IsSome(section)
    THEN (IF file.openable THEN View("section", TRUE, SectionBody, cache)
          ELSE ReadError("IoError", cache))
    ELSE IF file.byte_len = 0 THEN View("empty", TRUE, NoBody, cache)
    ELSE IF ~file.openable THEN ReadError("IoError", cache)
    ELSE ViewOfBytes(path, file, full, cache)

(***************************************************************************)
(* SpecRead: read_file is called on files of all descriptions              *)
(***************************************************************************)
MaxReads == 2

File(meta, byte_len, openable, nul, nonprintable, gen_name, gen_marker, valid_utf8,
     structured) ==
    [meta |-> meta, byte_len |-> byte_len, openable |-> openable, nul |-> nul,
     nonprintable |-> nonprintable, gen_name |-> gen_name, gen_marker |-> gen_marker,
     valid_utf8 |-> valid_utf8, structured |-> structured, mtime |-> 0]

\* lengths on both sides of the threshold: 6003 \div 4 = 1500, 6004 \div 4 = 1501
ReadLengths == {1, 6003, 6004}

ReadFiles ==
    {File("file", len, TRUE, b[1], b[2], g[1], g[2], TRUE, FALSE) :
        len \in ReadLengths,
        b \in {<<FALSE, 0>>, <<FALSE, BINARY_PERCENT>>, <<FALSE, BINARY_PERCENT + 1>>,
               <<TRUE, 0>>},
        g \in {<<FALSE, FALSE>>, <<TRUE, FALSE>>, <<FALSE, TRUE>>}}
      \cup {File("file", len, TRUE, FALSE, 1, FALSE, FALSE, FALSE, st) :
                len \in ReadLengths, st \in BOOLEAN}
      \cup {File("file", 0, TRUE, FALSE, 0, FALSE, FALSE, TRUE, FALSE),
            File("file", 0, TRUE, FALSE, 0, TRUE, FALSE, TRUE, FALSE),
            File("file", 1, FALSE, FALSE, 0, FALSE, FALSE, TRUE, FALSE),
            File("missing", 0, FALSE, FALSE, 0, FALSE, FALSE, TRUE, FALSE),
            File("denied", 0, FALSE, FALSE, 0, FALSE, FALSE, TRUE, FALSE),
            File("dir", 0, FALSE, FALSE, 0, FALSE, FALSE, TRUE, FALSE)}

ReadSections == {None, Some("1-2")}

InitRead ==
    /\ BloomIdle
    /\ BloomCacheIdle
    /\ IndexIdle
    /\ EditIdle
    /\ ConcIdle
    /\ OutlineIdle
    /\ RankIdle
    /\ PureIdle
    /\ RestIdle
    /\ FacetIdle
    /\ ExpandIdle
    /\ McpIdle
    /\ readCache = EmptyMap
    /\ readLast = None
    /\ nReads = 0

ReadFrame == UNCHANGED <<bloomVars, bloomCacheVars, indexVars, editVars, concVars,
                         outlineVars, rankVars, facetVars, expandVars, mcpVars, pureVars, restVars>>

ReadDone(file, section, full, r) ==
    /\ readCache' = r.cache
    /\ readLast' = Some([file |-> file, section |-> section, full |-> full,
                         ok |-> r.ok, mode |-> r.mode, header |-> r.header,
                         body |-> r.body])

\* read_file on the file the path names at the time of the call
DoReadFile ==
    /\ nReads < MaxReads
    /\ \E file \in ReadFiles, section \in ReadSections, full \in BOOLEAN :
           ReadDone(file, section, full, read_file("p", file, section, full, readCache))
    /\ nReads' = nReads + 1
    /\ ReadFrame

NextRead == DoReadFile

SpecRead == InitRead /\ [][NextRead]_vars

\* the last call read a regular file without a section and did not fail
ReadWholeFile ==
    /\ IsSome(readLast)
    /\ Unwrap(readLast).file.meta = "file"
    /\ Unwrap(readLast).section = None
    /\ Unwrap(readLast).ok

(***************************************************************************)
(* C20: read_file without a section returns the complete contents of the   *)
(* file exactly when the file is not empty, not binary, not generated and  *)
(* either full is set or its estimated tokens are at most 1500; a binary   *)
(* or generated file gets a header only, also with full set; every other   *)
(* file above the threshold gets header and outline.                       *)
(***************************************************************************)
C20_ReadDecisionTree ==
    ReadWholeFile =>
        LET c == Unwrap(readLast)
            f == c.file
            small == f.byte_len \div 4 <= 1500
            binary == f.nul \/ f.nonprintable > 30
            generated == f.gen_name \/ f.gen_marker
        IN  /\ c.body.kind = "content"
                   <=> (f.byte_len > 0 /\ ~binary /\ ~generated /\ (c.full \/ small))
            /\ (f.byte_len > 0 /\ (binary \/ generated))
                   => (c.header /\ c.body.kind = "none")
            /\ (f.byte_len > 0 /\ ~binary /\ ~generated /\ ~c.full /\ ~small)
                   => (c.header /\ c.body.kind = "outline")

\* full = true on a generated file above the threshold: header only
C20_Witness ==
    /\ ReadWholeFile
    /\ Unwrap(readLast).full
    /\ Unwrap(readLast).file.gen_marker
    /\ Unwrap(readLast).file.byte_len \div 4 > 1500
    /\ Unwrap(readLast).header
    /\ Unwrap(readLast).body.kind = "none"

(***************************************************************************)
(* read_section (read/mod.rs) and number_lines (format.rs).  The mapped    *)
(* file is the sequence of its bytes; "nl" is the newline, "cr" the        *)
(* carriage return, "xff" a byte that is not valid UTF-8 and "fffd" the    *)
(* replacement character it decodes to.                                    *)
(***************************************************************************)
is_whitespace(c) == c \in {" ", "tab"}

RECURSIVE trim_start(_)
trim_start(s) == IF s # << >> /\ is_whitespace(Head(s)) THEN trim_start(Tail(s)) ELSE s

RECURSIVE trim_end(_)
trim_end(s) ==
    IF s # << >> /\ is_whitespace(s[Len(s)]) THEN trim_end(SubSeq(s, 1, Len(s) - 1)) ELSE s

trim(s) == trim_end(trim_start(s))

\* str::parse::<usize>: an optional plus sign, then one or more digits
parse_usize(s) ==
    LET digits == IF s # << >> /\ Head(s) = "+" THEN Tail(s) ELSE s
    IN  IF digits # << >> /\ \A i \in 1..Len(digits) : IsDigit(digits[i], 10)
        THEN Some(ParseNumber(digits, 10, 0))
        ELSE None

\* str::split_once: the text before and after the first occurrence of c
RECURSIVE split_once(_, _, _)
split_once(s, c, i) ==
    IF i > Len(s) THEN None
    ELSE IF s[i] = c THEN Some(<<SubSeq(s, 1, i - 1), SubSeq(s, i + 1, Len(s))>>)
    ELSE split_once(s, c, i + 1)

parse_range(s) ==
    LET ab == split_once(s, "-", 1)
    IN  IF ~IsSome(ab) THEN None
        ELSE LET start == parse_usize(trim(Unwrap(ab)[1]))
                 end == parse_usize(trim(Unwrap(ab)[2]))
             IN  IF ~IsSome(start) \/ ~IsSome(end) THEN None
                 ELSE IF Unwrap(start) = 0 \/ Unwrap(end) < Unwrap(start) THEN None
                 ELSE Some(<<Unwrap(start), Unwrap(end)>>)

\* String::from_utf8_lossy on a slice of bytes
RECURSIVE utf8_lossy(_)
utf8_lossy(bytes) ==
    IF bytes = << >> THEN << >>
    ELSE <<IF Head(bytes) = "xff" THEN "fffd" ELSE Head(bytes)>> \o utf8_lossy(Tail(bytes))

\* str::lines: the text is cut after every newline, the newline and a
\* carriage return before it are not part of the line, and no line follows
\* the last newline
RECURSIVE str_lines(_, _)
str_lines(text, cur) ==
    IF text = << >> THEN (IF cur = << >> THEN << >> ELSE <<cur>>)
    ELSE IF Head(text) = "nl"
    THEN <<IF cur # << >> /\ cur[Len(cur)] = "cr" THEN SubSeq(cur, 1, Len(cur) - 1) ELSE cur>>
             \o str_lines(Tail(text), << >>)
    ELSE str_lines(Tail(text), Append(cur, Head(text)))

RECURSIVE ilog10(_)
ilog10(n) == IF n < 10 THEN 0 ELSE 1 + ilog10(n \div 10)

\* number_lines: one entry per line, {num:>width$} then two spaces and the line
number_lines(content, start) ==
    LET ls == str_lines(content, << >>)
        last == Max(start + Len(ls), 1)
        width == ilog10(last) + 1
    IN  [i \in 1..Len(ls) |->
            [num |-> start + (i - 1),
             pad |-> width - (ilog10(start + (i - 1)) + 1),
             text |-> ls[i]]]

file_header(byte_len, line_count, mode) ==
    [byte_len |-> byte_len, line_count |-> line_count, mode |-> mode]

\* memchr_iter(b'\n', buf): line_offsets, 0-based as in the source
RECURSIVE line_offsets_from(_, _)
line_offsets_from(buf, pos) ==
    IF pos >= Len(buf) THEN << >>
    ELSE (IF buf[pos + 1] = "nl" THEN <<pos + 1>> ELSE << >>)
             \o line_offsets_from(buf, pos + 1)

InvalidQuery(reason) == [ok |-> FALSE, error |-> "InvalidQuery", reason |-> reason]

\* a read_section that cuts at the line after the last one asked for
read_section_one_more(buf, range) ==
    LET r == parse_range(range)
    IN  IF ~IsSome(r) THEN InvalidQuery("expected format")
        ELSE LET start == Unwrap(r)[1]
                 end == Unwrap(r)[2]
                 line_offsets == <<0>> \o line_offsets_from(buf, 0)
                 total == Len(line_offsets)
                 s == Min(Max(start - 1, 0), total)
                 e == Min(end + 1, total)
             IN  IF s >= e THEN InvalidQuery("range out of bounds")
                 ELSE LET start_byte == line_offsets[s + 1]
                          end_byte == IF e < Len(line_offsets) THEN line_offsets[e + 1]
                                      ELSE Len(buf)
                          selected == utf8_lossy(SubSeq(buf, start_byte + 1, end_byte))
                      IN  [ok |-> TRUE,
                           header |-> file_header(Len(selected), e - s, "section"),
                           numbered |-> number_lines(selected, start)]

read_section(buf, range) ==
    LET r == parse_range(range)
    IN  IF ~IsSome(r) THEN InvalidQuery("expected format")
        ELSE LET start == Unwrap(r)[1]
                 end == Unwrap(r)[2]
                 line_offsets == <<0>> \o line_offsets_from(buf, 0)
                 total == Len(line_offsets)
                 s == Min(Max(start - 1, 0), total)
                 e == Min(end, total)
             IN  IF s >= e THEN InvalidQuery("range out of bounds")
                 ELSE LET start_byte == line_offsets[s + 1]
                          end_byte == IF e < Len(line_offsets) THEN line_offsets[e + 1]
                                      ELSE Len(buf)
                          selected == utf8_lossy(SubSeq(buf, start_byte + 1, end_byte))
                      IN  [ok |-> TRUE,
                           header |-> file_header(Len(selected), e - s, "section"),
                           numbered |-> number_lines(selected, start)]

(***************************************************************************)
(* SpecSection: one read_section call on an arbitrary small file with an   *)
(* arbitrary section argument.                                             *)
(***************************************************************************)
MaxBufLen == 4

SecBytes == {"a", "nl", "cr"}

RECURSIVE SeqsUpTo(_, _)
SeqsUpTo(S, n) ==
    IF n = 0 THEN {<< >>}
    ELSE LET shorter == SeqsUpTo(S, n - 1)
         IN  shorter \cup {Append(q, x) : q \in {t \in shorter : Len(t) = n - 1}, x \in S}

\* a file of n lines "a", each ended by a newline
RECURSIVE LinesOfA(_)
LinesOfA(n) == IF n = 0 THEN << >> ELSE <<"a", "nl">> \o LinesOfA(n - 1)

\* every file of up to n bytes, and three longer ones
SecBufs(n) ==
    SeqsUpTo(SecBytes, n)
        \cup {LinesOfA(12), LinesOfA(9) \o <<"b">>,
              <<"a", "xff", "nl", "xff", "cr", "nl", "b">>}

SecParts ==
    {<<"0">>, <<"1">>, <<"2">>, <<"3">>, <<" ", "2">>, <<"3", " ">>, <<"x">>, << >>,
     <<"+", "1">>, <<"1", "0">>, <<"1", "2">>, <<"1", "x">>, <<"-", "1">>, <<"9">>}

SecRanges == {a \o <<"-">> \o b : a \in SecParts, b \in SecParts} \cup SecParts

InitSection ==
    /\ BloomIdle
    /\ BloomCacheIdle
    /\ IndexIdle
    /\ EditIdle
    /\ ConcIdle
    /\ OutlineIdle
    /\ RankIdle
    /\ FacetIdle
    /\ ExpandIdle
    /\ McpIdle
    /\ ReadIdle
    /\ TokenizerIdle
    /\ BoostIdle
    /\ GapIdle
    /\ RestIdle
    /\ secBuf \in SecBufs(MaxBufLen)
    /\ secRange \in SecRanges
    /\ secResult = None

SectionFrame == UNCHANGED <<bloomVars, bloomCacheVars, indexVars, editVars, concVars,
                            outlineVars, rankVars, facetVars, expandVars, mcpVars,
                            readVars, tokVars, boostVars, gapVars, restVars>>

DoReadSection ==
    /\ secResult = None
    /\ secResult' = Some(read_section(secBuf, secRange))
    /\ UNCHANGED <<secBuf, secRange>>
    /\ SectionFrame

NextSection == DoReadSection

SpecSection == InitSection /\ [][NextSection]_vars

\* the lines of the file as text, and the two numbers of a section "A-B"
FileLines == str_lines(utf8_lossy(secBuf), << >>)

IsNumber(part) ==
    LET t == trim(part)
        d == IF t # << >> /\ Head(t) = "+" THEN Tail(t) ELSE t
    IN  d # << >> /\ \A i \in 1..Len(d) : IsDigit(d[i], 10)

NumberOf(part) ==
    LET t == trim(part)
    IN  ParseNumber(IF Head(t) = "+" THEN Tail(t) ELSE t, 10, 0)

FirstDash == CHOOSE i \in 1..Len(secRange) :
                 secRange[i] = "-" /\ \A j \in 1..(i - 1) : secRange[j] # "-"

HasDash == \E i \in 1..Len(secRange) : secRange[i] = "-"

PartA == SubSeq(secRange, 1, FirstDash - 1)
PartB == SubSeq(secRange, FirstDash + 1, Len(secRange))

WellFormedRange == HasDash /\ IsNumber(PartA) /\ IsNumber(PartB)

(***************************************************************************)
(* C21: a section "A-B" with 1 <= A <= B <= number of lines of the file    *)
(* returns a [section] header and exactly B-A+1 numbered lines, numbered A *)
(* through B, whose text is lines A..B of the file; a section with A = 0,  *)
(* B < A or a part that is not a number is rejected as an invalid query.   *)
(***************************************************************************)
C21_SectionIsTheLines ==
    IsSome(secResult) =>
        LET r == Unwrap(secResult)
        IN  /\ (WellFormedRange /\ 1 <= NumberOf(PartA) /\ NumberOf(PartA) <= NumberOf(PartB)
                    /\ NumberOf(PartB) <= Len(FileLines))
                   => /\ r.ok
                      /\ r.header.mode = "section"
                      /\ r.header.line_count = NumberOf(PartB) - NumberOf(PartA) + 1
                      /\ Len(r.numbered) = NumberOf(PartB) - NumberOf(PartA) + 1
                      /\ \A i \in 1..Len(r.numbered) :
                             /\ r.numbered[i].num = NumberOf(PartA) + i - 1
                             /\ r.numbered[i].text = FileLines[NumberOf(PartA) + i - 1]
            /\ (~WellFormedRange \/ NumberOf(PartA) = 0 \/ NumberOf(PartB) < NumberOf(PartA))
                   => (~r.ok /\ r.error = "InvalidQuery")

\* "2-3" on a file of three or more lines returned lines 2 and 3
C21_Witness ==
    /\ IsSome(secResult)
    /\ secRange = <<"2", "-", "3">>
    /\ Len(FileLines) >= 3
    /\ Unwrap(secResult).ok
    /\ Len(Unwrap(secResult).numbered) = 2
    /\ Unwrap(secResult).numbered[1].text # Unwrap(secResult).numbered[2].text

\* the range is "A-B" with 1 <= A <= B
AcceptableRange ==
    WellFormedRange /\ 1 <= NumberOf(PartA) /\ NumberOf(PartA) <= NumberOf(PartB)

\* C40: whenever read_section accepts a range, the line count of the [section]
\* header is the number of numbered lines after it; and a range "A-B" whose A
\* is greater than the number of lines of the file is rejected as out of
\* bounds, also when the file ends with a newline.
C40_HeaderCountIsNumberedLines ==
    IsSome(secResult) =>
        LET r == Unwrap(secResult)
        IN  /\ r.ok => r.header.line_count = Len(r.numbered)
            /\ (AcceptableRange /\ NumberOf(PartA) > Len(FileLines))
                   => (~r.ok /\ r.reason = "range out of bounds")

(***************************************************************************)
(* SpecTokenizer: extract_identifiers(content) is consumed by calls of     *)
(* next; every iteration of the while loop of next is one step.            *)
(***************************************************************************)
MaxTokLen == 3
MaxStringLen == 6
MaxCallsAfterNone == 2

TokBytes == {"dq", "sq", "bt", "bs", "/", "*", "nl", "a"}

SeqsOfLen(S, n) == {q \in SeqsUpTo(S, n) : Len(q) = n}

\* every content of up to short bytes; contents of up to long bytes over the
\* bytes of one string kind; and contents of up to long - 1 bytes over the
\* bytes of the comments, of identifiers, and of strings and comments together
TokContents(short, long) ==
    SeqsUpTo(TokBytes, short)
        \cup UNION {SeqsOfLen({q, "bs", "a"}, n) :
                        q \in {"dq", "sq", "bt"}, n \in (short + 1)..long}
        \cup UNION {SeqsOfLen({"/", "*", "nl", "a"}, n) : n \in (short + 1)..(long - 1)}
        \cup UNION {SeqsOfLen({"a", "1", "_", "bs"}, n) : n \in (short + 1)..(long - 1)}
        \cup UNION {SeqsOfLen({"dq", "/", "*", "a"}, n) : n \in (short + 1)..(long - 1)}

InitTokenizer ==
    /\ BloomIdle
    /\ BloomCacheIdle
    /\ IndexIdle
    /\ EditIdle
    /\ ConcIdle
    /\ OutlineIdle
    /\ RankIdle
    /\ FacetIdle
    /\ ExpandIdle
    /\ McpIdle
    /\ ReadIdle
    /\ SectionIdle
    /\ BoostIdle
    /\ GapIdle
    /\ RestIdle
    /\ tokBytes \in TokContents(MaxTokLen, MaxStringLen)
    /\ tokIter = IdentifierIterNew
    /\ tokInNext = FALSE
    /\ tokYielded = << >>
    /\ tokReturns = << >>
    /\ tokPrev = None

TokenizerFrame == UNCHANGED <<bloomVars, bloomCacheVars, indexVars, editVars, concVars,
                              outlineVars, rankVars, facetVars, expandVars, mcpVars,
                              readVars, sectionVars, boostVars, gapVars, restVars>>

NoneReturns == Cardinality({i \in 1..Len(tokReturns) : tokReturns[i] = None})

\* the consumer calls next
TokCallNext ==
    /\ ~tokInNext
    /\ NoneReturns <= MaxCallsAfterNone
    /\ tokInNext' = TRUE
    /\ tokPrev' = None
    /\ UNCHANGED <<tokBytes, tokIter, tokYielded, tokReturns>>
    /\ TokenizerFrame

\* one iteration of while self.pos < len
TokLoopStep ==
    /\ tokInNext
    /\ tokIter.pos < Len(tokBytes)
    /\ LET r == ScanStep(tokBytes, tokIter)
       IN  /\ tokIter' = r.it
           /\ tokPrev' = Some(tokIter)
           /\ IF IsSome(r.item)
              THEN /\ tokInNext' = FALSE
                   /\ tokYielded' = Append(tokYielded,
                                           [start |-> tokIter.pos, end |-> r.it.pos,
                                            text |-> Unwrap(r.item),
                                            state |-> tokIter.state])
                   /\ tokReturns' = Append(tokReturns, r.item)
              ELSE UNCHANGED <<tokInNext, tokYielded, tokReturns>>
    /\ UNCHANGED tokBytes
    /\ TokenizerFrame

\* the loop ends and next returns None
TokReturnNone ==
    /\ tokInNext
    /\ tokIter.pos >= Len(tokBytes)
    /\ tokInNext' = FALSE
    /\ tokReturns' = Append(tokReturns, None)
    /\ tokPrev' = None
    /\ UNCHANGED <<tokBytes, tokIter, tokYielded>>
    /\ TokenizerFrame

NextTokenizer == TokCallNext \/ TokLoopStep \/ TokReturnNone

SpecTokenizer == InitTokenizer /\ [][NextTokenizer]_vars

\* What each byte of the content is, read from the left: "code", or part
\* of a string or of a comment, delimiters and escaped bytes included.
\* in is "code", the quote of the open string, "line" or "block".
RECURSIVE Lexical(_, _, _)
Lexical(bytes, k, in) ==
    IF k > Len(bytes) THEN << >>
    ELSE LET b == bytes[k]
             two == k < Len(bytes)
             nxt == IF two THEN bytes[k + 1] ELSE "eof"
         IN  IF in = "code"
             THEN (IF b \in {"dq", "sq", "bt"} THEN <<"string">> \o Lexical(bytes, k + 1, b)
                   ELSE IF b = "/" /\ nxt = "/"
                   THEN <<"comment", "comment">> \o Lexical(bytes, k + 2, "line")
                   ELSE IF b = "/" /\ nxt = "*"
                   THEN <<"comment", "comment">> \o Lexical(bytes, k + 2, "block")
                   ELSE <<"code">> \o Lexical(bytes, k + 1, "code"))
             ELSE IF in = "line"
             THEN <<"comment">> \o Lexical(bytes, k + 1, IF b = "nl" THEN "code" ELSE "line")
             ELSE IF in = "block"
             THEN (IF b = "*" /\ nxt = "/"
                   THEN <<"comment", "comment">> \o Lexical(bytes, k + 2, "code")
                   ELSE <<"comment">> \o Lexical(bytes, k + 1, "block"))
             ELSE (IF b = "bs" /\ two THEN <<"string", "string">> \o Lexical(bytes, k + 2, in)
                   ELSE <<"string">> \o Lexical(bytes, k + 1, IF b = in THEN "code" ELSE in))

ByteKinds == Lexical(tokBytes, 1, "code")

\* byte k (counted from 1) can be part of an identifier and is code
IdentByte(k) ==
    /\ k \in 1..Len(tokBytes)
    /\ ByteKinds[k] = "code"
    /\ tokBytes[k] \in {"a", "1", "_"}

\* the identifiers of the code: each starts at a letter or underscore that
\* follows no identifier byte, or only digits back to one, and ends where
\* the identifier bytes end; start and end are 0-based, end exclusive
CodeIdentifiers ==
    {se \in (0..Len(tokBytes)) \X (0..Len(tokBytes)) :
        /\ se[1] < se[2]
        /\ \A k \in (se[1] + 1)..se[2] : IdentByte(k)
        /\ ~IdentByte(se[2] + 1)
        /\ tokBytes[se[1] + 1] # "1"
        /\ \E j \in 0..se[1] :
               /\ \A k \in (j + 1)..se[1] : IdentByte(k) /\ tokBytes[k] = "1"
               /\ ~IdentByte(j)}

YieldedSpans == {<<tokYielded[i].start, tokYielded[i].end>> : i \in 1..Len(tokYielded)}

(***************************************************************************)
(* C22: the tokenizer never yields an identifier that lies inside a        *)
(* double-quoted, single-quoted or backtick string, a line comment or a    *)
(* block comment: every byte of a yielded identifier is code, and its      *)
(* first byte was scanned in the Code state.                               *)
(***************************************************************************)
C22_NoIdentifierFromStringOrComment ==
    \A i \in 1..Len(tokYielded) :
        /\ tokYielded[i].state = "Code"
        /\ \A k \in (tokYielded[i].start + 1)..tokYielded[i].end : ByteKinds[k] = "code"
        /\ tokYielded[i].text = SubSeq(tokBytes, tokYielded[i].start + 1, tokYielded[i].end)

\* a content with an identifier in a line comment and one after it: next
\* returned None and only the one after the comment was yielded
C22_Witness ==
    /\ tokBytes = <<"/", "/", "a", "nl", "a">>
    /\ tokReturns # << >>
    /\ tokReturns[Len(tokReturns)] = None
    /\ YieldedSpans = {<<4, 5>>}


StringStates == {"StringDouble", "StringSingle", "StringBacktick"}

ClosingQuote == [s \in StringStates |->
                    IF s = "StringDouble" THEN "dq" ELSE IF s = "StringSingle" THEN "sq" ELSE "bt"]

\* the consumer has been told that the iterator is exhausted
Exhausted == tokReturns # << >> /\ tokReturns[Len(tokReturns)] = None

(***************************************************************************)
(* C23: in every string state a backslash consumes the byte after it, so   *)
(* the state is still the string state two bytes on and an escaped quote   *)
(* does not end the string; the first unescaped matching quote returns the *)
(* machine to Code; what is yielded is always among the identifiers of the *)
(* code, none from between the quotes, and once the iterator is exhausted  *)
(* it is all of them, those after a closing quote included.                *)
(***************************************************************************)
C23_EscapesInStrings ==
    /\ (IsSome(tokPrev) /\ Unwrap(tokPrev).state \in StringStates) =>
           LET prev == Unwrap(tokPrev)
               b == tokBytes[prev.pos + 1]
           IN  IF b = "bs" /\ prev.pos + 1 < Len(tokBytes)
               THEN tokIter = [pos |-> prev.pos + 2, state |-> prev.state]
               ELSE IF b = ClosingQuote[prev.state]
               THEN tokIter = [pos |-> prev.pos + 1, state |-> "Code"]
               ELSE tokIter = [pos |-> prev.pos + 1, state |-> prev.state]
    /\ YieldedSpans \subseteq CodeIdentifiers
    /\ Exhausted => YieldedSpans = CodeIdentifiers

\* "\"a"a: the escaped quote did not end the string, the identifier after
\* it was not yielded and the one after the closing quote was
C23_Witness ==
    /\ tokBytes = <<"dq", "bs", "dq", "a", "dq", "a">>
    /\ Exhausted
    /\ YieldedSpans = {<<5, 6>>}
    /\ <<3, 4>> \notin YieldedSpans


(***************************************************************************)
(* C24: the tokenizer terminates: every iteration of the loop of next      *)
(* moves the position forward, the position never passes the end of the    *)
(* input, also when the input ends in a lone backslash, '/' or '*', and    *)
(* after next has returned None every later call returns None.             *)
(***************************************************************************)
C24_TokenizerTerminates ==
    /\ IsSome(tokPrev) => tokIter.pos > Unwrap(tokPrev).pos
    /\ tokIter.pos <= Len(tokBytes)
    /\ \A i \in 1..Len(tokReturns) : \A j \in i..Len(tokReturns) :
           tokReturns[i] = None => tokReturns[j] = None

\* a string that ends in a lone backslash: the scan stopped at the end of
\* the input and next has returned None twice
C24_Witness ==
    /\ tokBytes = <<"a", "dq", "bs">>
    /\ tokIter.pos = 3
    /\ tokReturns = <<Some(<<"a">>), None, None>>

(***************************************************************************)
(* SpecBoost: score is called once for a match and once for a second match *)
(* of the same search, and the comparator of sort orders the two.  The     *)
(* matches differ in their paths only.                                     *)
(***************************************************************************)
BoostMatch(path) == Match(path, 1, TRUE, 5, TRUE, 0, 100)

DirSearch == <<"s", "e", "a", "r", "c", "h">>
DirApp == <<"a", "p", "p">>
DirLib == <<"l", "i", "b">>
DirSub == <<"s", "u", "b">>
DirPy == <<"p", "y">>
FileMod == <<"m", "o", "d", ".", "r", "s">>
FileCtx == <<"c", "t", "x", ".", "r", "s">>
FileCargo == <<"C", "a", "r", "g", "o", ".", "t", "o", "m", "l">>

BoostNames ==
    {<<"w", "a", "l", "k", "e", "r", ".", "r", "s">>, FileMod, <<"w", "a", "l", "k", ".", "r", "s">>, <<"W", "a", "l", "k", "_", "T", "e", "s", "t", ".", "r", "s">>, <<"w", "a", "l", "k", ".", "d", ".", "r", "s">>,
     <<"t", "r", "e", "e", "_", "w", "a", "l", "k", ".", "r", "s">>, <<"w", "a", "l", "k">>, <<".", "w", "a", "l", "k">>, <<"w", "a", "l", "k", "i", "n", "g", "_", "x", ".", "r", "s">>, <<"w", "a", "l", ".", "r", "s">>}

BoostPaths ==
    {<<DirSrc, DirSearch, n>> : n \in BoostNames}
        \cup {<<DirApp, DirSrc, FileMod>>, <<DirApp, DirLib, FileMod>>, <<DirApp, FileMod>>,
              <<DirApp, DirSub, FileMod>>, <<DirApp, DirSub, DirSrc, FileMod>>,
              <<DirPy, FileMod>>, <<DirPy, DirLib, FileMod>>, <<FileMod>>}

BoostOthers == {<<DirSrc, DirSearch, FileMod>>, <<DirSrc, DirSearch, <<"w", "a", "l", "k", ".", "r", "s">>>>}

BoostQueries == {<<"w", "a", "l", "k">>, <<"W", "A", "L", "K">>, <<"m", "o", "d">>, << >>}

BoostContexts ==
    {None, Some(<<DirSrc, DirSearch, FileCtx>>), Some(<<DirApp, DirSrc, FileCtx>>),
     Some(<<DirApp, FileCtx>>), Some(<<DirPy, DirLib, FileCtx>>), Some(<<FileCtx>>)}

BoostFileSystems ==
    {{}, {<<FileCargo>>}, {<<DirApp, FileCargo>>},
     {<<DirApp, FileCargo>>, <<DirApp, DirSub, <<"p", "a", "c", "k", "a", "g", "e", ".", "j", "s", "o", "n">>>>},
     {<<DirPy, <<"s", "e", "t", "u", "p", ".", "p", "y">>>>}, {<<DirPy, <<"p", "y", "p", "r", "o", "j", "e", "c", "t", ".", "t", "o", "m", "l">>>>}}

InitBoost ==
    /\ BloomIdle
    /\ BloomCacheIdle
    /\ IndexIdle
    /\ EditIdle
    /\ ConcIdle
    /\ OutlineIdle
    /\ RankIdle
    /\ FacetIdle
    /\ ExpandIdle
    /\ McpIdle
    /\ ReadIdle
    /\ SectionIdle
    /\ TokenizerIdle
    /\ GapIdle
    /\ RestIdle
    /\ boostArgs \in {Some(a) : a \in [m : {BoostMatch(p) : p \in BoostPaths},
                                      other : {BoostMatch(p) : p \in BoostOthers},
                                      query : BoostQueries,
                                      context : BoostContexts,
                                      fs : BoostFileSystems]}
    /\ boostResult = None

BoostFrame == UNCHANGED <<bloomVars, bloomCacheVars, indexVars, editVars, concVars,
                          outlineVars, rankVars, facetVars, expandVars, mcpVars,
                          readVars, sectionVars, tokVars, gapVars, restVars>>

\* the parts of score(m) the claims speak of, score(m) and score(other), the
\* answer of the comparator, and the package roots ranking and faceting
\* compute for the file of m
Scored(a) ==
    LET ctx_parent == IF IsSome(a.context) THEN PathParent(Unwrap(a.context)) ELSE None
        ctx_pkg_root == IF IsSome(a.context) THEN rank_package_root(a.fs, Unwrap(a.context))
                        ELSE None
        sm == score(a.m, a.query, << >>, a.context, a.fs, ClockStart)
        so == score(a.other, a.query, << >>, a.context, a.fs, ClockStart)
    IN  [basename |-> basename_boost(a.m.path, a.query),
         context |-> IF IsSome(ctx_parent) \/ IsSome(ctx_pkg_root)
                     THEN context_proximity(a.fs, a.m.path, ctx_parent, ctx_pkg_root)
                     ELSE 0,
         score_m |-> sm,
         score_other |-> so,
         m_first |-> RankLess(a.m, a.other, sm, so),
         rank_root |-> rank_package_root(a.fs, Unwrap(PathParent(a.m.path))),
         facet_root |-> package_root(a.fs, Unwrap(PathParent(a.m.path)))]

DoScore ==
    /\ boostResult = None
    /\ boostResult' = Some(Scored(Unwrap(boostArgs)))
    /\ UNCHANGED boostArgs
    /\ BoostFrame

NextBoost == DoScore

SpecBoost == InitBoost /\ [][NextBoost]_vars

BoostArg == Unwrap(boostArgs)
BoostOut == Unwrap(boostResult)

\* stem and query as the boost compares them
StemLower == to_ascii_lowercase(Unwrap(file_stem(BoostArg.m.path)))
QueryLower == to_ascii_lowercase(BoostArg.query)

StemEqualsQuery == StemLower = QueryLower

StemHasQueryPrefixThenSeparator ==
    \E rest \in {SubSeq(StemLower, i, Len(StemLower)) : i \in 1..Len(StemLower)} :
        /\ StemLower = QueryLower \o rest
        /\ rest[1] \in {"_", "."}

StemContainsQuery ==
    \E i \in 1..(Len(StemLower) + 1), j \in 0..Len(StemLower) :
        i <= j + 1 /\ SubSeq(StemLower, i, j) = QueryLower

(***************************************************************************)
(* C25: the basename boost is computed from the file stem and the query,   *)
(* both lowercased, as exactly one of +300 when they are equal, else +150  *)
(* when the stem starts with the query and the next stem byte is '_' or    *)
(* '.', else +100 when the stem contains the query, else 0; and 0 for an   *)
(* empty query.                                                            *)
(***************************************************************************)
C25_BasenameBoost ==
    IsSome(boostResult) =>
        BoostOut.basename =
            IF BoostArg.query = << >> THEN 0
            ELSE IF StemEqualsQuery THEN 300
            ELSE IF StemHasQueryPrefixThenSeparator THEN 150
            ELSE IF StemContainsQuery THEN 100
            ELSE 0

\* Walk_Test.rs for the query WALK: prefix and separator, +150
C25_Witness ==
    /\ IsSome(boostResult)
    /\ BoostArg.m.path = <<DirSrc, DirSearch, <<"W", "a", "l", "k", "_", "T", "e", "s", "t", ".", "r", "s">>>>
    /\ BoostArg.query = <<"W", "A", "L", "K">>
    /\ BoostOut.basename = 150


\* the call the example speaks of: the query walk, a match in
\* src/search/walker.rs and one in src/search/mod.rs, alike in all but the path
WalkerAndMod ==
    /\ IsSome(boostResult)
    /\ BoostArg.query = <<"w", "a", "l", "k">>
    /\ BoostArg.m.path = <<DirSrc, DirSearch, <<"w", "a", "l", "k", "e", "r", ".", "r", "s">>>>
    /\ BoostArg.other.path = <<DirSrc, DirSearch, FileMod>>

(***************************************************************************)
(* C26 as stated: for the query walk a match in src/search/walker.rs gets  *)
(* the +300 boost of an equal basename and so ranks above a match in       *)
(* src/search/mod.rs that is equal in every other score factor.            *)
(***************************************************************************)
C26_WalkerGetsEqualityBoost ==
    WalkerAndMod => (BoostOut.basename = 300 /\ BoostOut.m_first)

(***************************************************************************)
(* C26, amended: for the query walk a match in src/search/walker.rs gets   *)
(* the +100 boost of a stem that contains the query (walker is not equal   *)
(* to walk, and the byte after the prefix is neither '_' nor '.'), the     *)
(* match in src/search/mod.rs gets none, and so walker.rs scores 100 more  *)
(* and ranks above it; a stem equal to the query, walk.rs, gets +300.      *)
(***************************************************************************)
C26_WalkerGetsContainsBoost ==
    /\ WalkerAndMod =>
           /\ BoostOut.basename = 100
           /\ BoostOut.score_m = BoostOut.score_other + 100
           /\ BoostOut.m_first
    /\ (/\ IsSome(boostResult)
        /\ BoostArg.query = <<"w", "a", "l", "k">>
        /\ BoostArg.m.path = <<DirSrc, DirSearch, <<"w", "a", "l", "k", ".", "r", "s">>>>)
           => BoostOut.basename = 300

\* the example's call with a context file in the same directory
C26_Witness ==
    /\ WalkerAndMod
    /\ BoostArg.context = Some(<<DirSrc, DirSearch, FileCtx>>)
    /\ BoostOut.m_first
    /\ BoostOut.score_m > BoostOut.score_other


\* Package root as the glossary defines it: the nearest ancestor directory
\* of a file that contains a manifest
MANIFESTS == {<<"C", "a", "r", "g", "o", ".", "t", "o", "m", "l">>, <<"p", "a", "c", "k", "a", "g", "e", ".", "j", "s", "o", "n">>, <<"p", "y", "p", "r", "o", "j", "e", "c", "t", ".", "t", "o", "m", "l">>, <<"s", "e", "t", "u", "p", ".", "p", "y">>,
              <<"g", "o", ".", "m", "o", "d">>, <<"p", "o", "m", ".", "x", "m", "l">>, <<"b", "u", "i", "l", "d", ".", "g", "r", "a", "d", "l", "e">>}

HoldsManifest(fs, dir) == \E m \in MANIFESTS : Append(dir, m) \in fs

Ancestors(file) == {SubSeq(file, 1, n) : n \in 0..(Len(file) - 1)}

NearestPackageRoot(fs, file) ==
    LET roots == {d \in Ancestors(file) : HoldsManifest(fs, d)}
    IN  IF roots = {} THEN None
        ELSE Some(CHOOSE d \in roots : \A e \in roots : Len(e) <= Len(d))

SameDirectoryAsContext ==
    PathParent(BoostArg.m.path) = PathParent(Unwrap(BoostArg.context))

SamePackageRootAsContext ==
    /\ IsSome(NearestPackageRoot(BoostArg.fs, BoostArg.m.path))
    /\ NearestPackageRoot(BoostArg.fs, BoostArg.m.path)
           = NearestPackageRoot(BoostArg.fs, Unwrap(BoostArg.context))

(***************************************************************************)
(* C27: when a context path is passed, a match in the directory of the     *)
(* context file gets +100, and otherwise a match whose file has the same   *)
(* package root as the context file gets +75, wherever the file lies under *)
(* that root, a file directly in the directory of the manifest included.   *)
(***************************************************************************)
C27_ContextProximity ==
    (IsSome(boostResult) /\ IsSome(BoostArg.context)) =>
        /\ SameDirectoryAsContext => BoostOut.context = 100
        /\ (~SameDirectoryAsContext /\ SamePackageRootAsContext) => BoostOut.context = 75

(***************************************************************************)
(* C28: ranking and faceting agree on the package root: for every file the *)
(* root ranking's context proximity uses and the root faceting's           *)
(* same-package test uses are both the nearest ancestor directory that     *)
(* contains one of the seven manifests.                                    *)
(***************************************************************************)
C28_OnePackageRoot ==
    IsSome(boostResult) =>
        /\ BoostOut.rank_root = NearestPackageRoot(BoostArg.fs, BoostArg.m.path)
        /\ BoostOut.facet_root = NearestPackageRoot(BoostArg.fs, BoostArg.m.path)

(***************************************************************************)
(* Rendering of an expanded match: expand_match, the skip set that         *)
(* format_matches builds (strip_noise and the smart truncation), and       *)
(* filter_code_lines.  A file is the sequence of its lines; a block is the *)
(* sequence of its segments, the pieces between newlines, and a segment a  *)
(* sequence of characters with "bt" the backtick and "bar" the box bar.    *)
(***************************************************************************)
EXPAND_FULL_FILE_THRESHOLD == 800

RECURSIVE ToDigits(_)
ToDigits(n) == IF n < 10 THEN <<HexDigits[n + 1]>> ELSE Append(ToDigits(n \div 10), HexDigits[(n % 10) + 1])

RECURSIVE Spaces(_)
Spaces(n) == IF n <= 0 THEN << >> ELSE <<" ">> \o Spaces(n - 1)

\* {i:>4}
RightAligned(i, width) == Spaces(width - Len(ToDigits(i))) \o ToDigits(i)

Fence == <<"bt", "bt", "bt">>

is_blank(line) == trim(line) = << >>

is_import(trimmed) ==
    \/ StrStartsWith(trimmed, <<"u", "s", "e", " ">>)
    \/ StrStartsWith(trimmed, <<"i", "m", "p", "o", "r", "t", " ">>)
    \/ StrStartsWith(trimmed, <<"f", "r", "o", "m", " ">>)
    \/ StrStartsWith(trimmed, <<"#", "i", "n", "c", "l", "u", "d", "e">>)
    \/ StrStartsWith(trimmed, <<"r", "e", "q", "u", "i", "r", "e", "(">>)
    \/ StrStartsWith(trimmed, <<"r", "e", "q", "u", "i", "r", "e", " ">>)
    \/ (StrStartsWith(trimmed, <<"c", "o", "n", "s", "t", " ">>) /\ StrContains(trimmed, <<"=", " ", "r", "e", "q", "u", "i", "r", "e", "(">>))

\* the loop that looks for the first line that is neither import nor blank
RECURSIVE FirstNonImport(_, _, _, _)
FirstNonImport(lines, i, end, start) ==
    IF i > end \/ i - 1 >= Len(lines) THEN start
    ELSE IF ~is_import(trim(lines[i])) /\ trim(lines[i]) # << >> THEN i
    ELSE FirstNonImport(lines, i + 1, end, start)

\* the loop that writes the numbered lines, one blank of each run of blanks
RECURSIVE RenderFrom(_, _, _, _)
RenderFrom(lines, i, end, prev_blank) ==
    IF i > end THEN << >>
    ELSE IF i - 1 >= Len(lines) THEN RenderFrom(lines, i + 1, end, prev_blank)
    ELSE IF is_blank(lines[i]) /\ prev_blank THEN RenderFrom(lines, i + 1, end, prev_blank)
    ELSE <<RightAligned(i, 4) \o <<" ", "bar", " ">> \o lines[i]>>
             \o RenderFrom(lines, i + 1, end, is_blank(lines[i]))

\* expand_match on a readable file: the range of the block and its segments
expand_match(m, path, lines, tokens) ==
    LET total == Len(lines)
        se == IF tokens < EXPAND_FULL_FILE_THRESHOLD THEN <<1, total>>
              ELSE LET r == IF IsSome(m.def_range) THEN Unwrap(m.def_range)
                            ELSE <<Max(m.line - 10, 0), m.line + 10>>
                   IN  <<Max(r[1], 1), Min(r[2], total)>>
        end == se[2]
        first_non_import == FirstNonImport(lines, se[1], end, se[1])
        start == IF m.is_definition /\ se[1] <= 5
                    /\ first_non_import > se[1] /\ first_non_import <= end
                 THEN first_non_import ELSE se[1]
    IN  [start |-> start, end |-> end,
         code |-> << << >>, Fence \o path \o <<":">> \o ToDigits(start) \o <<"-">> \o ToDigits(end)>>
                     \o RenderFrom(lines, start, end, FALSE) \o <<Fence>>]

\* strip.rs: detect_lang on the extension of the path, None for every other one
detect_lang(ext) ==
    CASE ext = "rs" -> Some("Rust")
      [] ext \in {"py", "pyi"} -> Some("Python")
      [] ext = "go" -> Some("Go")
      [] ext \in {"js", "jsx", "ts", "tsx", "mjs", "cjs"} -> Some("JsTs")
      [] ext \in {"java", "kt", "kts", "cs", "scala", "sc"} -> Some("JavaKotlinCSharp")
      [] ext \in {"c", "h", "cpp", "hpp", "cc", "cxx"} -> Some("CppC")
      [] OTHER -> None

DebugLogPatterns(lang) ==
    CASE lang = "Rust" ->
            {<<"l", "o", "g", ":", ":", "d", "e", "b", "u", "g", "!">>, <<"l", "o", "g", ":", ":", "t", "r", "a", "c", "e", "!">>, <<"t", "r", "a", "c", "i", "n", "g", ":", ":", "d", "e", "b", "u", "g", "!">>, <<"t", "r", "a", "c", "i", "n", "g", ":", ":", "t", "r", "a", "c", "e", "!">>,
             <<"d", "e", "b", "u", "g", "!", "(">>, <<"t", "r", "a", "c", "e", "!", "(">>, <<"d", "b", "g", "!", "(">>}
      [] lang = "Python" ->
            {<<"l", "o", "g", "g", "e", "r", ".", "d", "e", "b", "u", "g", "(">>, <<"l", "o", "g", "g", "i", "n", "g", ".", "d", "e", "b", "u", "g", "(">>, <<"p", "r", "i", "n", "t", "(">>, <<"p", "p", "r", "i", "n", "t", "(">>,
             <<"p", "p", "r", "i", "n", "t", ".", "p", "p", "r", "i", "n", "t", "(">>}
      [] lang = "Go" ->
            {<<"l", "o", "g", ".", "P", "r", "i", "n", "t", "f", "(">>, <<"l", "o", "g", ".", "P", "r", "i", "n", "t", "l", "n", "(">>, <<"l", "o", "g", ".", "P", "r", "i", "n", "t", "(">>, <<"f", "m", "t", ".", "P", "r", "i", "n", "t", "f", "(">>,
             <<"f", "m", "t", ".", "P", "r", "i", "n", "t", "l", "n", "(">>, <<"f", "m", "t", ".", "P", "r", "i", "n", "t", "(">>}
      [] lang = "JsTs" ->
            {<<"c", "o", "n", "s", "o", "l", "e", ".", "l", "o", "g", "(">>, <<"c", "o", "n", "s", "o", "l", "e", ".", "d", "e", "b", "u", "g", "(">>, <<"c", "o", "n", "s", "o", "l", "e", ".", "t", "r", "a", "c", "e", "(">>}
      [] lang = "JavaKotlinCSharp" ->
            {<<"S", "y", "s", "t", "e", "m", ".", "o", "u", "t", ".", "p", "r", "i", "n", "t">>, <<"l", "o", "g", "g", "e", "r", ".", "d", "e", "b", "u", "g", "(">>, <<"l", "o", "g", ".", "d", "e", "b", "u", "g", "(">>, <<"L", "o", "g", ".", "d", "(">>,
             <<"p", "r", "i", "n", "t", "l", "n", "(">>}
      [] lang = "CppC" ->
            {<<"p", "r", "i", "n", "t", "f", "(">>, <<"s", "t", "d", ":", ":", "c", "o", "u", "t">>, <<"c", "o", "u", "t", " ">>, <<"c", "o", "u", "t", "<", "<">>}

is_debug_log(trimmed, lang) ==
    \E p \in DebugLogPatterns(lang) : StrStartsWith(trimmed, p)

KEEP_MARKERS == {<<"T", "O", "D", "O">>, <<"F", "I", "X", "M", "E">>, <<"N", "O", "T", "E">>, <<"H", "A", "C", "K">>, <<"S", "A", "F", "E", "T", "Y">>, <<"W", "A", "R", "N">>}

to_ascii_uppercase(str) ==
    [i \in 1..Len(str) |->
        IF \E k \in 1..26 : LowerCase[k] = str[i]
        THEN UpperCase[CHOOSE k \in 1..26 : LowerCase[k] = str[i]]
        ELSE str[i]]

\* the early "return false" of each language: the lines it takes for doc comments
DocComment(trimmed, lang) ==
    CASE lang = "Rust" ->
            \E p \in {<<"/", "/", "/">>, <<"/", "/", "!">>, <<"/", "*", "*">>, <<"#", "[", "d", "o", "c">>} : StrStartsWith(trimmed, p)
      [] lang = "Python" ->
            \E p \in {<<"dq", "dq", "dq">>, <<"sq", "sq", "sq">>} : StrStartsWith(trimmed, p)
      [] lang = "Go" -> FALSE
      [] lang = "JsTs" ->
            \/ StrStartsWith(trimmed, <<"/", "*", "*">>)
            \/ StrStartsWith(trimmed, <<"*", " ">>)
            \/ trimmed = <<"*", "/">>
      [] lang = "JavaKotlinCSharp" ->
            \E p \in {<<"/", "*", "*">>, <<"/", "/", "/">>} : StrStartsWith(trimmed, p)
      [] lang = "CppC" ->
            \E p \in {<<"/", "*", "*">>, <<"/", "/", "/">>, <<"/", "/", "!">>} : StrStartsWith(trimmed, p)

\* the same with the check of KEEP_MARKERS left out
is_strippable_comment_without_markers(trimmed, lang) ==
    IF DocComment(trimmed, lang) THEN FALSE
    ELSE StrStartsWith(trimmed, IF lang = "Python" THEN <<"#">> ELSE <<"/", "/">>)

is_strippable_comment(trimmed, lang) ==
    IF DocComment(trimmed, lang) THEN FALSE
    ELSE IF ~StrStartsWith(trimmed, IF lang = "Python" THEN <<"#">> ELSE <<"/", "/">>) THEN FALSE
    ELSE ~\E k \in KEEP_MARKERS : StrContains(to_ascii_uppercase(trimmed), k)

RECURSIVE StripFrom(_, _, _, _, _, _)
StripFrom(lines, lang, line_num, range_end, consecutive_blanks, skip) ==
    IF line_num > range_end \/ line_num - 1 >= Len(lines) THEN skip
    ELSE LET trimmed == trim(lines[line_num])
         IN  IF trimmed = << >>
             THEN StripFrom(lines, lang, line_num + 1, range_end, consecutive_blanks + 1,
                            IF consecutive_blanks + 1 >= 2 THEN skip \cup {line_num} ELSE skip)
             ELSE StripFrom(lines, lang, line_num + 1, range_end, 0,
                            IF is_debug_log(trimmed, lang) \/ is_strippable_comment(trimmed, lang)
                            THEN skip \cup {line_num} ELSE skip)

\* strip_noise; lang is what detect_lang made of the extension of the path
strip_noise(lines, lang, def_range) ==
    IF ~IsSome(def_range) \/ ~IsSome(lang) THEN {}
    ELSE StripFrom(lines, Unwrap(lang), Unwrap(def_range)[1], Unwrap(def_range)[2], 0, {})

\* the skip set of format_matches: strip_noise, and every line of the
\* definition that select_diverse_lines did not keep
skip_lines(lines, lang, def_range, keep) ==
    strip_noise(lines, lang, def_range)
        \cup (IF IsSome(def_range) /\ IsSome(keep)
              THEN (Unwrap(def_range)[1]..Unwrap(def_range)[2]) \ Unwrap(keep)
              ELSE {})

GapMarker(n) == Spaces(7) \o <<".", ".", ".", " ", "(">> \o ToDigits(n) \o <<" ", "l", "i", "n", "e", "s", " ", "o", "m", "i", "t", "t", "e", "d", ")">>

flush_gap_marker(kept, consecutive_skipped) ==
    IF consecutive_skipped > 3 THEN Append(kept, GapMarker(consecutive_skipped)) ELSE kept

\* segment.find(bar).and_then(|pos| segment[..pos].trim().parse::<u32>().ok())
SegmentLineNum(segment) ==
    LET cut == split_once(segment, "bar", 1)
    IN  IF IsSome(cut) THEN parse_usize(trim(Unwrap(cut)[1])) ELSE None

RECURSIVE FilterFrom(_, _, _, _, _)
FilterFrom(code, i, skip, kept, consecutive_skipped) ==
    IF i > Len(code) THEN kept
    ELSE IF StrStartsWith(code[i], Fence) \/ code[i] = << >>
    THEN FilterFrom(code, i + 1, skip,
                    Append(flush_gap_marker(kept, consecutive_skipped), code[i]), 0)
    ELSE IF IsSome(SegmentLineNum(code[i])) /\ Unwrap(SegmentLineNum(code[i])) \in skip
    THEN FilterFrom(code, i + 1, skip, kept, consecutive_skipped + 1)
    ELSE FilterFrom(code, i + 1, skip,
                    Append(flush_gap_marker(kept, consecutive_skipped), code[i]), 0)

filter_code_lines(code, skip) == FilterFrom(code, 1, skip, << >>, 0)

\* the block format_matches appends for a match it expands
stripped_code(m, path, lines, tokens, lang, keep) ==
    LET block == expand_match(m, path, lines, tokens)
        skip == skip_lines(lines, lang, m.def_range, keep)
    IN  [start |-> block.start, end |-> block.end, skip |-> skip,
         code |-> IF skip = {} THEN block.code ELSE filter_code_lines(block.code, skip)]

(***************************************************************************)
(* SpecGap: one match in a file of a few lines is expanded.                *)
(***************************************************************************)
MaxGapLines == 5

GapTexts == {<<"x", ";">>, << >>, <<"/", "/", "c">>}

\* every file of up to n lines, and five longer ones
GapFiles(n) ==
    SeqsUpTo(GapTexts, n)
        \cup {<<<<"u", "s", "e", " ", "a", ";">>, << >>, <<"f", "n", " ", "f", "(", ")", " ", "{">>, <<"d", "b", "g", "!", "(", "x", ")">>, <<" ", " ", "/", "/", " ", "c">>, <<"/", "/", "c">>,
                <<"/", "/", " ", "T", "O", "D", "O">>, <<"/", "/", "/", "d">>, <<"}">>>>,
              <<<<"x", ";">>, <<"/", "/", "c">>, <<"/", "/", "c">>, <<"d", "b", "g", "!", "(", "x", ")">>, <<"/", "/", "c">>, <<"/", "/", "c">>, <<"x", ";">>>>,
              <<<<"x", ";">>, <<"y", ";">>, <<"y", ";">>, <<"y", ";">>, <<"y", ";">>, <<"y", ";">>, <<"x", ";">>>>,
              <<<<"x", ";">>, << >>, << >>, << >>, << >>, << >>, <<"x", ";">>>>,
              <<<<"x", ";">>, << >>, << >>, <<"/", "/", "c">>, <<"/", "/", "c">>,
                <<"/", "/", "c">>, <<"/", "/", "c">>, <<"x", ";">>>>}

GapRanges(lines) ==
    {None, Some(<<1, Len(lines)>>), Some(<<2, Len(lines) - 1>>)}

GapKeeps(lines) == {None, Some({1, 2, Len(lines) - 1, Len(lines)})}

GapInputsOf(l) ==
    {[lines |-> l, is_definition |-> d, def_range |-> r, tokens |-> t, lang |-> g[1],
      keep |-> g[2]] :
        d \in BOOLEAN, r \in GapRanges(l),
        t \in {EXPAND_FULL_FILE_THRESHOLD - 1, EXPAND_FULL_FILE_THRESHOLD},
        g \in {<<detect_lang("rs"), None>>, <<detect_lang("rb"), None>>}
                \cup {<<detect_lang("rs"), k>> : k \in GapKeeps(l)}}

GapInputs(n) == UNION {GapInputsOf(l) : l \in GapFiles(n) \ {<< >>}}

InitGap ==
    /\ BloomIdle
    /\ BloomCacheIdle
    /\ IndexIdle
    /\ EditIdle
    /\ ConcIdle
    /\ OutlineIdle
    /\ RankIdle
    /\ FacetIdle
    /\ ExpandIdle
    /\ McpIdle
    /\ ReadIdle
    /\ SectionIdle
    /\ TokenizerIdle
    /\ BoostIdle
    /\ RestIdle
    /\ gapInput \in {Some(i) : i \in {x \in GapInputs(MaxGapLines) :
                                         IsSome(x.def_range) =>
                                             Unwrap(x.def_range)[1] <= Unwrap(x.def_range)[2]}}
    /\ gapResult = None

GapFrame == UNCHANGED <<bloomVars, bloomCacheVars, indexVars, editVars, concVars,
                        outlineVars, rankVars, facetVars, expandVars, mcpVars,
                        readVars, sectionVars, tokVars, boostVars, restVars>>

DoExpandMatch ==
    /\ gapResult = None
    /\ LET i == Unwrap(gapInput)
       IN  gapResult' = Some(stripped_code(
               [line |-> 1, is_definition |-> i.is_definition, def_range |-> i.def_range],
               <<"a", ".", "r", "s">>, i.lines, i.tokens, i.lang, i.keep))
    /\ UNCHANGED gapInput
    /\ GapFrame

NextGap == DoExpandMatch

SpecGap == InitGap /\ [][NextGap]_vars

\* reading the block: its markers, its numbered lines and their numbers
GapBlock == Unwrap(gapResult).code

IsGapMarker(seg) == StrStartsWith(seg, Spaces(7) \o <<".", ".", ".", " ", "(">>)

IsNumberedLine(seg) ==
    /\ seg # << >>
    /\ ~StrStartsWith(seg, Fence)
    /\ ~IsGapMarker(seg)
    /\ \E k \in 1..Len(seg) : seg[k] = "bar"

NumberOfLine(seg) ==
    LET bar == CHOOSE k \in 1..Len(seg) : seg[k] = "bar" /\ \A j \in 1..(k - 1) : seg[j] # "bar"
    IN  ParseNumber(trim(SubSeq(seg, 1, bar - 1)), 10, 0)

\* the K of a marker: the digits after the opening parenthesis
MarkerCount(seg) ==
    LET from == Len(Spaces(7) \o <<".", ".", ".", " ", "(">>) + 1
        to == CHOOSE k \in from..Len(seg) : seg[k + 1] = " " /\ \A j \in from..k : seg[j] # " "
    IN  ParseNumber(SubSeq(seg, from, to), 10, 0)

NumberedAt == {p \in 1..Len(GapBlock) : IsNumberedLine(GapBlock[p])}

\* p and q are neighbouring rendered lines of the block
Neighbours(p, q) ==
    /\ p \in NumberedAt
    /\ q \in NumberedAt
    /\ p < q
    /\ \A r \in NumberedAt : ~(p < r /\ r < q)

MarkersBetween(p, q) == {r \in (p + 1)..(q - 1) : IsGapMarker(GapBlock[r])}

OmittedBetween(p, q) == NumberOfLine(GapBlock[q]) - NumberOfLine(GapBlock[p]) - 1

(***************************************************************************)
(* C30: in an expanded code block every run of more than 3 consecutively   *)
(* omitted lines is replaced by one marker "... (K lines omitted)", K the  *)
(* number of source lines omitted between the neighbouring rendered lines, *)
(* and a run of 3 or fewer omitted lines produces no marker.               *)
(***************************************************************************)
C30_GapMarkers ==
    IsSome(gapResult) =>
        \A p, q \in 1..Len(GapBlock) :
            Neighbours(p, q) =>
                IF OmittedBetween(p, q) > 3
                THEN /\ Cardinality(MarkersBetween(p, q)) = 1
                     /\ \A r \in MarkersBetween(p, q) :
                            MarkerCount(GapBlock[r]) = OmittedBetween(p, q)
                ELSE MarkersBetween(p, q) = {}

(***************************************************************************)
(* SpecStrip: strip_noise is called once on a file of a few lines.         *)
(***************************************************************************)
MaxStripLines == 2

StripTexts ==
    {<< >>, <<"x", ";">>, <<"/", "/", " ", "c">>, <<" ", " ", "/", "/", " ", "t", "o", "d", "o">>, <<"/", "/", "/", " ", "d">>, <<"/", "/", "!", " ", "d">>, <<"/", "*", "*", " ", "d">>,
     <<"#", "[", "d", "o", "c", "]">>, <<"#", " ", "c">>, <<"#", " ", "N", "O", "T", "E">>, <<"dq", "dq", "dq", "d">>, <<"*", " ", "d">>, <<"p", "r", "i", "n", "t", "(", "x", ")">>}

\* every file of up to n lines, and three longer ones
StripFiles(n) ==
    (SeqsUpTo(StripTexts, n) \ {<< >>})
        \cup {<<<<"d", "b", "g", "!", "(", "x", ")">>, <<"f", "m", "t", ".", "P", "r", "i", "n", "t", "(", "x", ")">>, <<"c", "o", "n", "s", "o", "l", "e", ".", "l", "o", "g", "(", "x", ")">>, <<"p", "r", "i", "n", "t", "l", "n", "(", "x", ")">>,
                <<"p", "r", "i", "n", "t", "f", "(", "x", ")">>, <<"l", "o", "g", ":", ":", "t", "r", "a", "c", "e", "!", "(", "x", ")">>>>,
              <<<<"/", "*", "*">>, <<" ", "*", " ", "d">>, <<" ", "*", "/">>, <<"sq", "sq", "sq", "d">>, <<"/", "/", " ", "F", "i", "x", "m", "e">>,
                <<"#", " ", "h", "a", "c", "k">>, <<"/", "/", "c">>>>,
              <<<<"x", ";">>, << >>, <<" ", " ">>, << >>, <<"/", "/", " ", "c">>, << >>, << >>, <<"x", ";">>>>}

StripExts == {"rs", "py", "pyi", "go", "ts", "mjs", "java", "scala", "c", "cxx", "rb"}

StripRanges(lines) == {None, Some(<<1, Len(lines)>>), Some(<<2, Len(lines) + 1>>)}

StripInputs(n) ==
    UNION {[lines : {l}, ext : StripExts, def_range : StripRanges(l)] : l \in StripFiles(n)}

InitStrip ==
    /\ BloomIdle
    /\ BloomCacheIdle
    /\ IndexIdle
    /\ EditIdle
    /\ ConcIdle
    /\ OutlineIdle
    /\ RankIdle
    /\ FacetIdle
    /\ ExpandIdle
    /\ McpIdle
    /\ ReadIdle
    /\ PureIdle
    /\ MultiIdle
    /\ MarkdownIdle
    /\ IndexConcIdle
    /\ BloomConcIdle
    /\ stripInput \in {Some(i) : i \in StripInputs(MaxStripLines)}
    /\ stripResult = None

StripFrame == UNCHANGED <<bloomVars, bloomCacheVars, indexVars, editVars, concVars,
                          outlineVars, rankVars, facetVars, expandVars, mcpVars,
                          readVars, pureVars, multiVars, mdVars, indexers, bloomConcVars>>

DoStripNoise ==
    /\ stripResult = None
    /\ LET i == Unwrap(stripInput)
       IN  stripResult' = Some(strip_noise(i.lines, detect_lang(i.ext), i.def_range))
    /\ UNCHANGED stripInput
    /\ StripFrame

NextStrip == DoStripNoise

SpecStrip == InitStrip /\ [][NextStrip]_vars

\* reading the call: its lines, its language, and what a line is
StripLines == Unwrap(stripInput).lines

StripLang == Unwrap(detect_lang(Unwrap(stripInput).ext))

StripSkip == Unwrap(stripResult)

InDefRange(n) ==
    /\ IsSome(Unwrap(stripInput).def_range)
    /\ Unwrap(Unwrap(stripInput).def_range)[1] <= n
    /\ n <= Unwrap(Unwrap(stripInput).def_range)[2]
    /\ n <= Len(StripLines)

StartsWithOneOf(line, prefixes) == \E p \in prefixes : StrStartsWith(trim(line), p)

\* a line starting with ///, //!, /**, #[doc, """, ''' or a JSDoc continuation
DocCommentLine(line) ==
    StartsWithOneOf(line, {<<"/", "/", "/">>, <<"/", "/", "!">>, <<"/", "*", "*">>, <<"#", "[", "d", "o", "c">>, <<"dq", "dq", "dq">>,
                           <<"sq", "sq", "sq">>, <<"*", " ">>})

\* the doc comments of one language: those of Rust, Python's doc strings, JSDoc
\* with its continuations and its end, Javadoc and the C# ///, Doxygen; Go has none
DocCommentLineOf(line, lang) ==
    CASE lang = "Rust" -> StartsWithOneOf(line, {<<"/", "/", "/">>, <<"/", "/", "!">>, <<"/", "*", "*">>, <<"#", "[", "d", "o", "c">>})
      [] lang = "Python" -> StartsWithOneOf(line, {<<"dq", "dq", "dq">>, <<"sq", "sq", "sq">>})
      [] lang = "Go" -> FALSE
      [] lang = "JsTs" -> StartsWithOneOf(line, {<<"/", "*", "*">>, <<"*", " ">>}) \/ trim(line) = <<"*", "/">>
      [] lang = "JavaKotlinCSharp" -> StartsWithOneOf(line, {<<"/", "*", "*">>, <<"/", "/", "/">>})
      [] lang = "CppC" -> StartsWithOneOf(line, {<<"/", "*", "*">>, <<"/", "/", "/">>, <<"/", "/", "!">>})

CommentLine(line) == StartsWithOneOf(line, {<<"/", "/">>, <<"#">>})

HasKeepMarker(line) ==
    \E k \in {<<"T", "O", "D", "O">>, <<"F", "I", "X", "M", "E">>, <<"N", "O", "T", "E">>, <<"H", "A", "C", "K">>, <<"S", "A", "F", "E", "T", "Y">>, <<"W", "A", "R", "N">>} :
        StrContains(to_ascii_uppercase(line), k)

\* a blank line that follows a blank line of the range
RepeatedBlank(n) ==
    /\ is_blank(StripLines[n])
    /\ InDefRange(n - 1)
    /\ is_blank(StripLines[n - 1])

\* what a line of the skip set has to be
Strippable(n) ==
    /\ InDefRange(n)
    /\ \/ RepeatedBlank(n)
       \/ is_debug_log(trim(StripLines[n]), StripLang)
       \/ CommentLine(StripLines[n])

(***************************************************************************)
(* C31, as stated: in every supported language strip_noise never puts in   *)
(* the skip set a line starting with ///, //!, slash-star-star, #[doc, a   *)
(* triple quote or a JSDoc continuation, nor a comment whose uppercased    *)
(* text contains a keep marker; only comment lines, debug-log lines and    *)
(* repeated blank lines inside def_range are put in it.                    *)
(***************************************************************************)
C31_DocCommentsOfAnyLanguageKept ==
    IsSome(stripResult) =>
        \A n \in StripSkip :
            /\ Strippable(n)
            /\ ~DocCommentLine(StripLines[n])
            /\ ~(CommentLine(StripLines[n]) /\ HasKeepMarker(StripLines[n]))

(***************************************************************************)
(* C31, amended: strip_noise never puts in the skip set a line that the    *)
(* language of the file takes for a doc comment (Rust: ///, //!,           *)
(* slash-star-star, #[doc; Python: a triple quote; JS/TS: slash-star-star, *)
(* a JSDoc continuation, star-slash; Java, Kotlin, C#: slash-star-star,    *)
(* ///; C, C++: slash-star-star, ///, //!; Go: none), nor a comment whose  *)
(* uppercased text contains a keep marker; only comment lines, debug-log   *)
(* lines and repeated blank lines inside def_range are put in it, and      *)
(* every plain comment line of the language inside def_range is.           *)
(***************************************************************************)
C31_DocCommentsOfTheLanguageKept ==
    IsSome(stripResult) =>
        /\ \A n \in StripSkip :
            /\ Strippable(n)
            /\ ~DocCommentLineOf(StripLines[n], StripLang)
            /\ ~(CommentLine(StripLines[n]) /\ HasKeepMarker(StripLines[n]))
        /\ \A n \in 1..Len(StripLines) :
            /\ InDefRange(n)
            /\ IsSome(detect_lang(Unwrap(stripInput).ext))
            /\ StartsWithOneOf(StripLines[n], {IF StripLang = "Python" THEN <<"#">> ELSE <<"/", "/">>})
            /\ ~DocCommentLineOf(StripLines[n], StripLang)
            /\ ~HasKeepMarker(StripLines[n])
            => n \in StripSkip

\* a Rust file with a plain comment and a comment with a marker: only the
\* plain one is in the skip set
C31_Witness ==
    /\ IsSome(stripResult)
    /\ StripLines = <<<<"/", "/", " ", "c">>, <<" ", " ", "/", "/", " ", "t", "o", "d", "o">>>>
    /\ Unwrap(stripInput).ext = "rs"
    /\ StripSkip = {1}


\* the text of a numbered line of the block, after the bar and its space
RenderedText(seg) ==
    LET bar == CHOOSE k \in 1..Len(seg) : seg[k] = "bar" /\ \A j \in 1..(k - 1) : seg[j] # "bar"
    IN  SubSeq(seg, bar + 2, Len(seg))

BlankRendered(seg) == IsNumberedLine(seg) /\ is_blank(RenderedText(seg))

(***************************************************************************)
(* C32: the code block of an expanded match, after the blank collapse of   *)
(* expand_match, noise stripping and smart truncation, never shows two     *)
(* adjacent blank lines.                                                   *)
(***************************************************************************)
C32_NoAdjacentBlankLines ==
    IsSome(gapResult) =>
        \A p \in 1..(Len(GapBlock) - 1) :
            ~(BlankRendered(GapBlock[p]) /\ BlankRendered(GapBlock[p + 1]))


(***************************************************************************)
(* search_multi_symbol_expanded: the queries of one call are formatted one *)
(* after the other with one expansion budget and one set of expanded files *)
(***************************************************************************)
RECURSIVE MultiFrom(_, _, _, _)
MultiFrom(st, results, i, readable) ==
    IF i > Len(results) THEN << >>
    ELSE LET after == format_matches(st, results[i], readable)
         IN  <<[before |-> st, after |-> after]>> \o MultiFrom(after, results, i + 1, readable)

\* results[i] is what symbol::search found for the i-th query
search_multi_symbol_expanded(results, session, expand, readable) ==
    LET expand_remaining == IF expand = 0 THEN 0 ELSE Max(expand, Len(results))
    IN  MultiFrom(FormatState(session, expand_remaining), results, 1, readable)

(***************************************************************************)
(* SpecMulti: one multi-symbol search                                      *)
(***************************************************************************)
MaxQueries == 2

MultiPool == {ExD1, ExU2, ExU3, ExU4}

\* what one query finds: nothing, one match, or two at different locations
MultiResults ==
    {<< >>} \cup {l \in UNION {[1..n -> MultiPool] : n \in 1..2} : DistinctLocations(l)}

MultiSessions == {{}, {<<ExD1.path, ExD1.line>>}}

MultiInputs(n) ==
    UNION {[results : [1..k -> MultiResults], session : MultiSessions, expand : 0..MaxExpand] :
              k \in 1..n}

InitMulti ==
    /\ BloomIdle
    /\ BloomCacheIdle
    /\ IndexIdle
    /\ EditIdle
    /\ ConcIdle
    /\ OutlineIdle
    /\ RankIdle
    /\ FacetIdle
    /\ ExpandIdle
    /\ McpIdle
    /\ ReadIdle
    /\ PureIdle
    /\ StripIdle
    /\ MarkdownIdle
    /\ IndexConcIdle
    /\ BloomConcIdle
    /\ multiInput \in {Some(i) : i \in MultiInputs(MaxQueries)}
    /\ multiResult = None

MultiFrame == UNCHANGED <<bloomVars, bloomCacheVars, indexVars, editVars, concVars,
                          outlineVars, rankVars, facetVars, expandVars, mcpVars,
                          readVars, pureVars, stripVars, mdVars, indexers, bloomConcVars>>

DoSearchMulti ==
    /\ multiResult = None
    /\ LET i == Unwrap(multiInput)
       IN  multiResult' = Some(search_multi_symbol_expanded(i.results, i.session, i.expand,
                                                            ExpandReadable))
    /\ UNCHANGED multiInput
    /\ MultiFrame

NextMulti == DoSearchMulti

SpecMulti == InitMulti /\ [][NextMulti]_vars

\* the number of matches of query k that got inlined source
ExpansionsOf(k) ==
    Len(Unwrap(multiResult)[k].after.expanded) - Len(Unwrap(multiResult)[k].before.expanded)

\* query k has a match that expand_match can read, in a file no earlier query
\* expanded, and that the session does not show as seen earlier
HasExpandableMatch(k) ==
    LET before == Unwrap(multiResult)[k].before
        matches == Unwrap(multiInput).results[k]
    IN  \E j \in 1..Len(matches) :
            /\ matches[j].path \in ExpandReadable
            /\ matches[j].path \notin before.expanded_files
            /\ ~(/\ matches[j].is_definition
                 /\ IsSome(matches[j].def_range)
                 /\ is_expanded(before.session, matches[j].path, matches[j].line))

(***************************************************************************)
(* C33: in a multi-symbol search with expand > 0 every query that has an   *)
(* expandable match in a file not yet expanded gets at least one           *)
(* expansion, whatever the earlier queries of the call consumed.           *)
(***************************************************************************)
C33_OneSlotPerQuery ==
    (IsSome(multiResult) /\ Unwrap(multiInput).expand > 0) =>
        \A k \in 1..Len(Unwrap(multiInput).results) :
            HasExpandableMatch(k) => ExpansionsOf(k) >= 1


(***************************************************************************)
(* read/outline/markdown.rs: the outline of a Markdown file.  A file is    *)
(* its bytes, "nl" the newline, "bt" the backtick and "xff" a byte that is *)
(* not valid UTF-8.                                                        *)
(***************************************************************************)
\* memchr(b'\n', &buf[pos..]).map_or(buf.len(), |i| pos + i), pos counted from 1
RECURSIVE LineEnd(_, _)
LineEnd(buf, pos) ==
    IF pos > Len(buf) THEN Len(buf) + 1
    ELSE IF buf[pos] = "nl" THEN pos
    ELSE LineEnd(buf, pos + 1)

\* line.iter().take_while(|b| b == '#').count()
RECURSIVE HeadingLevel(_)
HeadingLevel(line) ==
    IF line # << >> /\ Head(line) = "#" THEN 1 + HeadingLevel(Tail(line)) ELSE 0

from_utf8_ok(bytes) == \A i \in 1..Len(bytes) : bytes[i] # "xff"

\* the entry of a heading line; truncate_str is not called for a text of up to
\* 80 bytes, and for a longer ASCII text it is taken to keep the first 77 bytes
HeadingEntry(line_num, line) ==
    LET level == HeadingLevel(line)
        text_start == level + (IF level < Len(line) /\ line[level + 1] = " " THEN 1 ELSE 0)
        text == SubSeq(line, text_start + 1, Len(line))
        indent == Spaces(2 * Max(level - 1, 0))
        truncated == IF Len(text) > 80 THEN SubSeq(text, 1, 77) \o <<".", ".", ".">> ELSE text
    IN  <<"[">> \o ToDigits(line_num) \o <<"]", " ">> \o indent \o truncated

\* the fence is left open at every line starting with three backticks
MdScanNeverCloses(st, buf) ==
    LET line_end == LineEnd(buf, st.pos)
        line == SubSeq(buf, st.pos, line_end - 1)
        line_num == st.line_num + 1
    IN  IF StrStartsWith(line, Fence)
        THEN [st EXCEPT !.line_num = line_num, !.pos = line_end + 1,
                        !.in_code_block = TRUE,
                        !.code_block_count = @ + 1]
        ELSE IF ~st.in_code_block /\ line # << >> /\ line[1] = "#"
                /\ HeadingLevel(line) <= 6 /\ from_utf8_ok(line)
        THEN [st EXCEPT !.line_num = line_num, !.pos = line_end + 1,
                        !.entries = Append(@, HeadingEntry(line_num, line))]
        ELSE [st EXCEPT !.line_num = line_num, !.pos = line_end + 1]

\* one iteration of the while loop
MdScan(st, buf) ==
    LET line_end == LineEnd(buf, st.pos)
        line == SubSeq(buf, st.pos, line_end - 1)
        line_num == st.line_num + 1
    IN  IF StrStartsWith(line, Fence)
        THEN [st EXCEPT !.line_num = line_num, !.pos = line_end + 1,
                        !.in_code_block = ~@,
                        !.code_block_count = IF st.in_code_block THEN @ ELSE @ + 1]
        ELSE IF ~st.in_code_block /\ line # << >> /\ line[1] = "#"
                /\ HeadingLevel(line) <= 6 /\ from_utf8_ok(line)
        THEN [st EXCEPT !.line_num = line_num, !.pos = line_end + 1,
                        !.entries = Append(@, HeadingEntry(line_num, line))]
        ELSE [st EXCEPT !.line_num = line_num, !.pos = line_end + 1]

RECURSIVE MdLoop(_, _, _)
MdLoop(st, buf, max_lines) ==
    IF st.pos <= Len(buf) /\ Len(st.entries) < max_lines
    THEN MdLoop(MdScan(st, buf), buf, max_lines)
    ELSE st

RECURSIVE JoinLines(_)
JoinLines(entries) ==
    IF entries = << >> THEN << >>
    ELSE IF Len(entries) = 1 THEN entries[1]
    ELSE entries[1] \o <<"nl">> \o JoinLines(Tail(entries))

\* outline(buf, max_lines): the string returned, with the state of the scan
markdown_outline(buf, max_lines) ==
    LET st == MdLoop([pos |-> 1, line_num |-> 0, code_block_count |-> 0,
                      in_code_block |-> FALSE, entries |-> << >>], buf, max_lines)
        footer == IF st.code_block_count > 0
                  THEN <<<<"nl", "(">> \o ToDigits(st.code_block_count) \o <<" ", "c", "o", "d", "e", " ", "b", "l", "o", "c", "k", "s", ")">>>>
                  ELSE << >>
    IN  [text |-> JoinLines(st.entries \o footer), headings |-> st.entries,
         footer |-> footer, scanned |-> st.line_num]

(***************************************************************************)
(* SpecMarkdown: the outline of one Markdown file of a few lines           *)
(***************************************************************************)
MaxMdLines == 3

MdTexts ==
    {<< >>, <<"a">>, <<"bt", "bt", "bt">>, <<"bt", "bt", "bt", "r", "s">>, <<"#", " ", "a">>, <<"#", "#", "a">>,
     <<"#", "#", "#", "#", "#", "#", " ">>, <<"#", "#", "#", "#", "#", "#", "#", "a">>, <<" ", "#", " ", "a">>, <<"#", " ", "xff">>}

\* the bytes of a file with these lines, the last one with or without newline
RECURSIVE MdBytes(_, _)
MdBytes(lines, final_newline) ==
    IF lines = << >> THEN << >>
    ELSE IF Len(lines) = 1 THEN lines[1] \o (IF final_newline THEN <<"nl">> ELSE << >>)
    ELSE lines[1] \o <<"nl">> \o MdBytes(Tail(lines), final_newline)

RECURSIVE Repeated(_, _)
Repeated(c, n) == IF n = 0 THEN << >> ELSE <<c>> \o Repeated(c, n - 1)

\* every file of up to n lines, and two with a heading of 80 and of 81 bytes
MdFiles(n) ==
    {MdBytes(l, f) : l \in SeqsUpTo(MdTexts, n), f \in BOOLEAN}
        \cup {<<"#", "#", " ">> \o Repeated("a", 80) \o <<"nl", "bt", "bt", "bt", "nl", "#", " ", "a">>,
              <<"#", "#", " ">> \o Repeated("a", 81)}

MdMaxLines == {0, 1, 100}

InitMarkdown ==
    /\ BloomIdle
    /\ BloomCacheIdle
    /\ IndexIdle
    /\ EditIdle
    /\ ConcIdle
    /\ OutlineIdle
    /\ RankIdle
    /\ FacetIdle
    /\ ExpandIdle
    /\ McpIdle
    /\ ReadIdle
    /\ PureIdle
    /\ StripIdle
    /\ MultiIdle
    /\ IndexConcIdle
    /\ BloomConcIdle
    /\ mdInput \in {Some([buf |-> b, max_lines |-> m]) : b \in MdFiles(MaxMdLines), m \in MdMaxLines}
    /\ mdResult = None

MarkdownFrame == UNCHANGED <<bloomVars, bloomCacheVars, indexVars, editVars, concVars,
                             outlineVars, rankVars, facetVars, expandVars, mcpVars,
                             readVars, pureVars, stripVars, multiVars, indexers, bloomConcVars>>

DoMarkdownOutline ==
    /\ mdResult = None
    /\ mdResult' = Some(markdown_outline(Unwrap(mdInput).buf, Unwrap(mdInput).max_lines))
    /\ UNCHANGED mdInput
    /\ MarkdownFrame

NextMarkdown == DoMarkdownOutline

SpecMarkdown == InitMarkdown /\ [][NextMarkdown]_vars

\* reading the file apart from the scan: its lines as the pieces between
\* newlines, and the fences by counting
RECURSIVE SplitAtNewlines(_, _)
SplitAtNewlines(bytes, cur) ==
    IF bytes = << >> THEN (IF cur = << >> THEN << >> ELSE <<cur>>)
    ELSE IF Head(bytes) = "nl" THEN <<cur>> \o SplitAtNewlines(Tail(bytes), << >>)
    ELSE SplitAtNewlines(Tail(bytes), Append(cur, Head(bytes)))

MdLines == SplitAtNewlines(Unwrap(mdInput).buf, << >>)

\* the lines the scan looked at before it stopped
MdSeen == 1..Unwrap(mdResult).scanned

IsFenceLine(n) == StrStartsWith(MdLines[n], Fence)

FenceLinesBefore(n) == {k \in 1..(n - 1) : IsFenceLine(k)}

InsideFence(n) == ~IsFenceLine(n) /\ Cardinality(FenceLinesBefore(n)) % 2 = 1

OpeningFence(n) == IsFenceLine(n) /\ Cardinality(FenceLinesBefore(n)) % 2 = 0

LeadingHashes(line) ==
    Cardinality({k \in 1..Len(line) : \A j \in 1..k : line[j] = "#"})

\* the line number an entry is tagged with: the digits between the brackets
EntryLineNumber(entry) ==
    LET close == CHOOSE k \in 1..Len(entry) : entry[k] = "]" /\ \A j \in 1..(k - 1) : entry[j] # "]"
    IN  ParseNumber(SubSeq(entry, 2, close - 1), 10, 0)

\* the text of an entry after "[n] " and the indent of its level
EntryTextFor(n) ==
    LET line == MdLines[n]
        level == LeadingHashes(line)
        rest == SubSeq(line, level + 1, Len(line))
        text == IF rest # << >> /\ rest[1] = " " THEN Tail(rest) ELSE rest
    IN  Spaces(2 * (level - 1)) \o (IF Len(text) > 80 THEN SubSeq(text, 1, 77) \o <<".", ".", ".">> ELSE text)

MdHeadings == Unwrap(mdResult).headings

\* the N of the footer "(N code blocks)", 0 when there is no footer
FooterCount ==
    IF Unwrap(mdResult).footer = << >> THEN 0
    ELSE LET f == Unwrap(mdResult).footer[1]
             to == CHOOSE k \in 3..Len(f) : f[k + 1] = " " /\ \A j \in 3..k : f[j] # " "
         IN  ParseNumber(SubSeq(f, 3, to), 10, 0)

(***************************************************************************)
(* C34: the Markdown outline never emits a heading for a line inside a     *)
(* fenced code block.  Every line starting with three backticks toggles    *)
(* the fence; every entry is tagged with the 1-indexed number of a line    *)
(* that starts with 1 to 6 # characters and lies outside a fence, the      *)
(* entries come in the order of their lines; every such line that was      *)
(* scanned and is valid UTF-8 has its entry; and the footer counts the     *)
(* opening fences among the lines scanned.                                 *)
(***************************************************************************)
C34_NoHeadingInsideFence ==
    IsSome(mdResult) =>
        /\ \A i \in 1..Len(MdHeadings) :
            LET n == EntryLineNumber(MdHeadings[i])
            IN  /\ n \in MdSeen
                /\ n <= Len(MdLines)
                /\ ~IsFenceLine(n)
                /\ ~InsideFence(n)
                /\ LeadingHashes(MdLines[n]) \in 1..6
                /\ MdHeadings[i] = <<"[">> \o ToDigits(n) \o <<"]", " ">> \o EntryTextFor(n)
                /\ \A j \in 1..(i - 1) : EntryLineNumber(MdHeadings[j]) < n
        /\ \A n \in MdSeen :
            /\ LeadingHashes(MdLines[n]) \in 1..6
            /\ ~InsideFence(n)
            /\ from_utf8_ok(MdLines[n])
            => \E i \in 1..Len(MdHeadings) : EntryLineNumber(MdHeadings[i]) = n
        /\ FooterCount = Cardinality({n \in MdSeen : OpeningFence(n)})

\* a file with a heading and then a fence holding a line that starts with #:
\* the outline has the one heading and one code block
C34_Witness ==
    /\ IsSome(mdResult)
    /\ Unwrap(mdInput).max_lines = 100
    /\ \E n \in MdSeen : InsideFence(n) /\ LeadingHashes(MdLines[n]) \in 1..6
    /\ Len(MdHeadings) = 1
    /\ FooterCount = 1


\* the names under which at least one location is stored
NamesWithLocations == {name \in DOMAIN symbols : symbols[name] # << >>}

(***************************************************************************)
(* C35: after any sequence of build and index_file calls, symbol_count()   *)
(* is the number of names for which at least one location is stored; a     *)
(* name whose last location was removed by re-indexing its file is not     *)
(* counted.                                                                *)
(***************************************************************************)
C35_SymbolCountIsLiveNames ==
    symbol_count(symbols) = Cardinality(NamesWithLocations)

(***************************************************************************)
(* C36: after any sequence of build and index_file calls, the locations    *)
(* stored for each indexed path are exactly those extracted the last time  *)
(* that path was indexed: none is stored twice and none survives from an   *)
(* earlier indexing of the path.                                           *)
(***************************************************************************)
C36_LocationsOfLastIndexing ==
    \A path \in DOMAIN indexed_files :
        \A name \in AllNames :
            StoredFor(path, name) = ExtractedFor(path, lastIndexed[path], name)


(***************************************************************************)
(* SpecIndexConc: index_file calls on one path run at the same time, and   *)
(* lookups run between their steps.  The maps are DashMaps: get, insert,   *)
(* the retain on one entry and the push on one entry are each atomic,      *)
(* nothing spans two of them.  iter_mut visits the entries in an order the *)
(* map decides; an entry inserted while it runs may or may not be visited. *)
(***************************************************************************)
ConcPath == <<"a", "x.rs">>
OtherPath == <<"ab", "y.rs">>

\* the index before the calls: ab/y.rs is indexed, a/x.rs is or is not
IndexedBefore(c0) ==
    LET other == index_file(EmptyMap, EmptyMap, OtherPath, "impl_hello", 0)
    IN  IF IsSome(c0)
        THEN index_file(other.symbols, other.indexed_files, ConcPath, Unwrap(c0), 0)
        ELSE other

IndexerStart(content) ==
    [pc |-> "start", content |-> content, start_keys |-> {}, visited |-> {},
     extracted |-> << >>, i |-> 1]

InitIndexConc ==
    /\ BloomIdle
    /\ BloomCacheIdle
    /\ EditIdle
    /\ ConcIdle
    /\ OutlineIdle
    /\ RankIdle
    /\ FacetIdle
    /\ ExpandIdle
    /\ McpIdle
    /\ ReadIdle
    /\ PureIdle
    /\ StripIdle
    /\ MultiIdle
    /\ MarkdownIdle
    /\ BloomConcIdle
    /\ \E c0 \in {None} \cup {Some(c) : c \in IndexContents} :
        /\ symbols = IndexedBefore(c0).symbols
        /\ indexed_files = IndexedBefore(c0).indexed_files
        /\ lastIndexed = [p \in DOMAIN IndexedBefore(c0).indexed_files |->
                              IF p = ConcPath THEN Unwrap(c0) ELSE "impl_hello"]
    /\ disk = [p \in {ConcPath, OtherPath} |-> [content |-> "impl_hello", mtime |-> 0]]
    /\ nOps = 0
    /\ idxLast = None
    /\ lastLookup = None
    /\ \E threads \in {{1}, {1, 2}} :
           indexers \in [threads -> {IndexerStart(c) : c \in IndexContents}]

IndexConcFrame == UNCHANGED <<bloomVars, bloomCacheVars, editVars, concVars, outlineVars,
                              rankVars, facetVars, expandVars, mcpVars, readVars, pureVars,
                              stripVars, multiVars, mdVars, bloomConcVars, disk, nOps, idxLast, lastIndexed>>

\* fs::metadata, then self.indexed_files.get(path)
IxBegin(t) ==
    /\ indexers[t].pc = "start"
    /\ indexers' = [indexers EXCEPT ![t] =
           IF ConcPath \in DOMAIN indexed_files
           THEN [@ EXCEPT !.pc = "retain", !.start_keys = DOMAIN symbols]
           ELSE [@ EXCEPT !.pc = "insert"]]
    /\ UNCHANGED <<symbols, indexed_files, lastLookup>>
    /\ IndexConcFrame

\* the retain on the next entry iter_mut comes to
IxRetain(t) ==
    /\ indexers[t].pc = "retain"
    /\ \E name \in (DOMAIN symbols) \ indexers[t].visited :
        /\ symbols' = [symbols EXCEPT ![name] = SelectSeq(@, LAMBDA loc : loc.path # ConcPath)]
        /\ indexers' = [indexers EXCEPT ![t].visited = @ \cup {name}]
    /\ UNCHANGED <<indexed_files, lastLookup>>
    /\ IndexConcFrame

\* iter_mut is through: it visited at least the entries that were there
\* when it began
IxRetainEnd(t) ==
    /\ indexers[t].pc = "retain"
    /\ indexers[t].start_keys \subseteq indexers[t].visited
    /\ indexers' = [indexers EXCEPT ![t].pc = "insert"]
    /\ UNCHANGED <<symbols, indexed_files, lastLookup>>
    /\ IndexConcFrame

\* extract_symbols and self.indexed_files.insert
IxInsert(t) ==
    /\ indexers[t].pc = "insert"
    /\ LET extracted == extract_symbols(ConcPath, indexers[t].content)
       IN  indexers' = [indexers EXCEPT ![t] =
               [@ EXCEPT !.pc = IF extracted = << >> THEN "done" ELSE "push",
                         !.extracted = extracted]]
    /\ indexed_files' = MapPut(indexed_files, ConcPath, disk[ConcPath].mtime)
    /\ UNCHANGED <<symbols, lastLookup>>
    /\ IndexConcFrame

\* self.symbols.entry(name).or_default().push(loc) for the next symbol
IxPush(t) ==
    /\ indexers[t].pc = "push"
    /\ LET e == indexers[t].extracted
           i == indexers[t].i
       IN  /\ symbols' = PushSymbols(symbols, ConcPath, disk[ConcPath].mtime, <<e[i]>>, 1)
           /\ indexers' = [indexers EXCEPT ![t] =
                  [@ EXCEPT !.i = i + 1, !.pc = IF i + 1 > Len(e) THEN "done" ELSE "push"]]
    /\ UNCHANGED <<indexed_files, lastLookup>>
    /\ IndexConcFrame

\* a lookup of another request, between two steps of the calls
IxLookup ==
    /\ \E name \in IndexNames :
        lastLookup' = Some([name |-> name, scope |-> << >>,
                            result |-> lookup(symbols, name, << >>),
                            definitions |-> lookup_definitions(symbols, name, << >>)])
    /\ UNCHANGED <<symbols, indexed_files, indexers>>
    /\ IndexConcFrame

NextIndexConc ==
    \/ \E t \in DOMAIN indexers :
        IxBegin(t) \/ IxRetain(t) \/ IxRetainEnd(t) \/ IxInsert(t) \/ IxPush(t)
    \/ IxLookup

SpecIndexConc == InitIndexConc /\ [][NextIndexConc]_vars

AllIndexersDone == \A t \in DOMAIN indexers : indexers[t].pc = "done"

(***************************************************************************)
(* C37: concurrent index_file calls on one path are last-write-wins: when  *)
(* all of them have returned, the locations stored for the path are        *)
(* exactly those extracted from the content of one of the calls, never a   *)
(* mixture or a duplicated union.                                          *)
(***************************************************************************)
C37_LastWriteWins ==
    AllIndexersDone =>
        \E t \in DOMAIN indexers :
            \A name \in AllNames :
                StoredFor(ConcPath, name) = ExtractedFor(ConcPath, indexers[t].content, name)

\* the name is defined in the content the path was indexed from before the
\* calls and in the content of every call
DefinedThroughout(name) ==
    /\ ConcPath \in DOMAIN lastIndexed
    /\ ExtractedFor(ConcPath, lastIndexed[ConcPath], name) # << >>
    /\ \A t \in DOMAIN indexers : ExtractedFor(ConcPath, indexers[t].content, name) # << >>

(***************************************************************************)
(* C38: a lookup that runs concurrently with index_file(path, new_content) *)
(* never sees a half-updated file: for a name defined in the old and in    *)
(* the new content of the path it returns a location of the path at every  *)
(* point of the interleaving.                                              *)
(***************************************************************************)
C38_LookupNeverSeesGap ==
    (IsSome(lastLookup) /\ DefinedThroughout(Unwrap(lastLookup).name)) =>
        \E i \in 1..Len(Unwrap(lastLookup).result) :
            Unwrap(lastLookup).result[i].path = ConcPath


(***************************************************************************)
(* BloomFilterCache::contains called from several threads on one path.     *)
(* DashMap::get and DashMap::insert each run under the shard lock, so a    *)
(* call is two steps: the lookup with the mtime comparison, and, after a   *)
(* miss, the build of the filter and the insert of (filter, mtime).        *)
(***************************************************************************)
BloomThreads == {1, 2}
BloomConcPath == "p.rs"

BloomCallStart(mtime, content, symbol) ==
    [pc |-> "get", mtime |-> mtime, content |-> content, symbol |-> symbol,
     answer |-> None, used |-> None]

\* the entry a former call left in the cache, or no entry
InitBloomConc ==
    /\ BloomIdle
    /\ IndexIdle
    /\ EditIdle
    /\ ConcIdle
    /\ OutlineIdle
    /\ RankIdle
    /\ FacetIdle
    /\ ExpandIdle
    /\ McpIdle
    /\ ReadIdle
    /\ PureIdle
    /\ StripIdle
    /\ MultiIdle
    /\ MarkdownIdle
    /\ IndexConcIdle
    /\ bcLast = None
    /\ \E before \in {None} \cup {Some([content |-> c, mtime |-> m]) :
                                      c \in CacheContents, m \in Mtimes} :
        /\ filters = IF IsSome(before)
                     THEN BloomCacheContains(EmptyMap, BloomConcPath, Unwrap(before).mtime,
                                             Unwrap(before).content, << >>).filters
                     ELSE EmptyMap
        /\ builtFrom = IF IsSome(before)
                       THEN MapPut(EmptyMap, BloomConcPath, Unwrap(before).content)
                       ELSE EmptyMap
        /\ \E calls \in [BloomThreads -> {BloomCallStart(m, c, s) :
                             m \in Mtimes, c \in CacheContents, s \in CacheSymbols}] :
            /\ bloomCalls = calls
            /\ supplied = {<<calls[t].content, calls[t].mtime>> : t \in BloomThreads}
                          \cup (IF IsSome(before)
                                THEN {<<Unwrap(before).content, Unwrap(before).mtime>>}
                                ELSE {})

BloomConcFrame == UNCHANGED <<bloomVars, indexVars, editVars, concVars, outlineVars,
                              rankVars, facetVars, expandVars, mcpVars, readVars, pureVars,
                              stripVars, multiVars, mdVars, indexers, bcLast, supplied>>

\* the pair stored by insert, with the mtime of the entry it replaces
CacheStoreKeepsOldMtime(fs, path, filter, mtime) ==
    MapPut(fs, path, [filter |-> filter,
                      mtime |-> IF path \in DOMAIN fs THEN fs[path].mtime ELSE mtime])

\* self.filters.insert(path.to_path_buf(), (filter, mtime))
CacheStore(fs, path, filter, mtime) ==
    MapPut(fs, path, [filter |-> filter, mtime |-> mtime])

\* if let Some(entry) = self.filters.get(path) { if cached_mtime == mtime { return .. } }
BcGet(t) ==
    /\ bloomCalls[t].pc = "get"
    /\ LET c == bloomCalls[t]
       IN  bloomCalls' = [bloomCalls EXCEPT ![t] =
               IF CacheHit(filters, BloomConcPath, c.mtime)
               THEN [c EXCEPT !.pc = "done",
                              !.answer = Some(BloomContains(filters[BloomConcPath].filter,
                                                            c.symbol)),
                              !.used = Some(<<builtFrom[BloomConcPath],
                                              filters[BloomConcPath].mtime>>)]
               ELSE [c EXCEPT !.pc = "build"]]
    /\ UNCHANGED <<filters, builtFrom>>
    /\ BloomConcFrame

\* let filter = build_filter(content); let result = filter.contains(symbol); insert; result
BcInsert(t) ==
    /\ bloomCalls[t].pc = "build"
    /\ LET c == bloomCalls[t]
           filter == build_filter(c.content)
       IN  /\ filters' = CacheStore(filters, BloomConcPath, filter, c.mtime)
           /\ builtFrom' = MapPut(builtFrom, BloomConcPath, c.content)
           /\ bloomCalls' = [bloomCalls EXCEPT ![t] =
                  [@ EXCEPT !.pc = "done",
                            !.answer = Some(BloomContains(filter, c.symbol)),
                            !.used = Some(<<c.content, c.mtime>>)]]
    /\ BloomConcFrame

NextBloomConc == \E t \in BloomThreads : BcGet(t) \/ BcInsert(t)

SpecBloomConc == InitBloomConc /\ [][NextBloomConc]_vars

\* the calls that have returned
BloomCallsDone == {t \in DOMAIN bloomCalls : bloomCalls[t].pc = "done"}

\* C39: in every interleaving of contains calls on one path, a call that has
\* returned answered from a filter built from a content that was passed to
\* contains together with the call's own mtime; so a call that reports an
\* identifier of its own content as absent did not use a filter cached under
\* another mtime; and the entry in the cache is a filter together with the mtime
\* that was passed with the content the filter was built from.
C39_BloomCacheRacesHarmless ==
    /\ \A t \in BloomCallsDone :
        LET c == bloomCalls[t]
            u == Unwrap(c.used)
        IN  /\ u \in supplied
            /\ u[2] = c.mtime
            /\ Unwrap(c.answer) = BloomContains(build_filter(u[1]), c.symbol)
            /\ (c.symbol \in IdentSet(c.content) /\ ~Unwrap(c.answer)) => u[1] # c.content
    /\ BloomConcPath \in DOMAIN filters =>
        /\ filters[BloomConcPath].filter = build_filter(builtFrom[BloomConcPath])
        /\ <<builtFrom[BloomConcPath], filters[BloomConcPath].mtime>> \in supplied

\* two calls with the same mtime and different contents both missed an empty
\* cache and both inserted: the second insert replaced the first, and the entry
\* left is the filter of one of the two contents under their mtime
C39_Witness ==
    /\ BloomCallsDone = BloomThreads
    /\ bloomCalls[1].mtime = bloomCalls[2].mtime
    /\ bloomCalls[1].content # bloomCalls[2].content
    /\ \A t \in BloomThreads :
        Unwrap(bloomCalls[t].used) = <<bloomCalls[t].content, bloomCalls[t].mtime>>
    /\ supplied = {<<bloomCalls[t].content, bloomCalls[t].mtime>> : t \in BloomThreads}
    /\ filters[BloomConcPath].mtime = bloomCalls[1].mtime

=============================================================================
